---- MODULE Spec2Model ----
(***************************************************************************)
(* Model of the IAM reconciliation scripts: the user stack program         *)
(* (user_stack/__main__.py), the workflows that edit its "users" config    *)
(* (import_user, sync_users, edit_user, delete_user, create_user), the     *)
(* group import (groups_stack/import_groups.py) and the groups stack       *)
(* program (groups_stack/__main__.py).                                     *)
(*                                                                         *)
(* The remote authority (AWS IAM) and the execution engine (Pulumi) are    *)
(* external: the remote state is a set of variables (aws...), the engine's  *)
(* persisted state is pulumiState / groupState, and a `pulumi up` is the   *)
(* program run (Preview) followed by the engine applying the resulting     *)
(* plan (Apply).                                                           *)
(***************************************************************************)
EXTENDS Integers, Sequences, FiniteSets, TLC

VARIABLES
    awsUsers,        \* user names that exist in IAM
    awsKeys,         \* user -> number of access keys in IAM
    awsLogin,        \* user -> a login profile exists in IAM
    awsGroups,       \* user -> set of groups the user is a member of in IAM
    users_config,    \* the "users" config value: sequence of [name, obj]
    pulumiState,     \* user stack resources the engine tracks
    awsPath,         \* user -> path of the user in IAM
    program,         \* result of the last run of the user stack program
    pc,              \* "idle" | "planned" (a program run awaits its apply)
    lastApplied,     \* the last finished operation was an apply of the current config
    operatorRemoved, \* (user, group) pairs the operator explicitly asked to remove
    importRun,       \* what the last import_user run read and issued
    edit,            \* the edit_user session in progress, if any
    ops,             \* operations the operator has started
    iamGroups,       \* group names that exist in IAM
    iamAttached,     \* group -> set of managed policy ARNs attached in IAM
    iamInline,       \* group -> set of inline policy names in IAM
    imported_groups, \* the "imported_groups" config value: sequence of [name, obj]
    groupState,      \* groups stack resources the engine tracks
    groupProgram,    \* result of the last run of the groups stack program
    gpc,             \* "idle" | "planned" on the groups stack
    fetchRun,        \* the listings that failed in the last group import
    out,             \* what the last manage_users / create_user run reported
    raw_config,      \* the raw "users" and "imported_groups" values a program reads
    runs,            \* the results of the program runs on raw_config
    host             \* user_stack/__main__.py, its backup, and the working directory

aws == << awsUsers, awsKeys, awsLogin, awsGroups, awsPath >>
urest == << aws, users_config, pulumiState, program, pc, lastApplied,
            operatorRemoved, importRun, edit, out >>
uvars == << urest, ops >>
gvars == << iamGroups, iamAttached, iamInline, imported_groups, groupState,
            groupProgram, gpc, fetchRun >>
pvars == << raw_config, runs >>
vars == << uvars, gvars, pvars, host >>

----------------------------------------------------------------------------
(* Universe of the model.                                                  *)

Users == {"alice", "bob"}
Groups == {"A", "B"}
Flags == {"yes", "no"}
Paths == {"/", "/system/"}

\* IAM allows at most two access keys per user.
KeyLimit == 2

\* Operations (a pulumi up, an import, a sync, an edit session, a delete)
\* the operator starts in one behaviour.
MaxOps == 2

\* The inline policy documents read before get_group_policy fails, at most.
MaxFailAt == 1

\* Operations (a group import, a pulumi up) the operator starts on the
\* groups stack in one behaviour.
MaxGroupOps == 4

\* The operator starts one more operation.
Start == ops < MaxOps /\ ops' = ops + 1
StartOnGroups == ops < MaxGroupOps /\ ops' = ops + 1

----------------------------------------------------------------------------
(* Sequences and the ordered "users" mapping.                              *)

Range(s) == {s[i] : i \in 1..Len(s)}

\* The order in which IAM lists groups.
GroupOrder == << "A", "B" >>

\* A set of groups as the list an IAM listing call returns.
Listed(S) == SelectSeq(GroupOrder, LAMBDA g : g \in S)

Keys(cfg) == [i \in 1..Len(cfg) |-> cfg[i].name]
HasKey(cfg, u) == \E i \in 1..Len(cfg) : cfg[i].name = u
Get(cfg, u) == (CHOOSE i \in 1..Len(cfg) : cfg[i].name = u)
Value(cfg, u) == cfg[Get(cfg, u)].obj

\* dict[u] = obj: replaces in place, or appends a new key at the end.
Put(cfg, u, obj) ==
    IF HasKey(cfg, u)
    THEN [i \in 1..Len(cfg) |-> IF cfg[i].name = u THEN [name |-> u, obj |-> obj] ELSE cfg[i]]
    ELSE Append(cfg, [name |-> u, obj |-> obj])

\* Faulty variant: the last entry goes, whatever its key.
DelLast(cfg, u) == SubSeq(cfg, 1, Len(cfg) - 1)

\* del dict[u]
Del(cfg, u) == SelectSeq(cfg, LAMBDA e : e.name # u)

----------------------------------------------------------------------------
(* The user stack program, user_stack/__main__.py.                         *)

\* A value of the users mapping. isdict is FALSE for a value that is not a
\* mapping (a bare string); its other fields are then not meaningful.
DictObj(groups, create_key, has_console_access, path) ==
    [isdict |-> TRUE, groups |-> groups, create_key |-> create_key,
     has_console_access |-> has_console_access, path |-> path]

BareString ==
    [isdict |-> FALSE, groups |-> << >>, create_key |-> "n/a",
     has_console_access |-> "n/a", path |-> "n/a"]

\* A JSON null (None); .lower() on it raises AttributeError.
NullValue == "<null>"
IsStr(v) == v # NullValue

\* str.lower() on the flag values that occur.
Lower(s) == IF s = "YES" THEN "yes" ELSE IF s = "NO" THEN "no" ELSE s

\* Faulty variant: no isinstance check, so reading a bare string raises.
UserObjUnchecked(obj) ==
    [raised |-> ~obj.isdict, groups |-> obj.groups, create_key |-> Lower(obj.create_key),
     has_console_access |-> Lower(obj.has_console_access), path |-> obj.path]

\* Lines 34-42: the entry as the loop body reads it; raised when a flag of
\* a mapping entry is not a string.
UserObj(obj) ==
    IF ~obj.isdict
    THEN [raised |-> FALSE, groups |-> << >>, create_key |-> "no",
          has_console_access |-> "no", path |-> "/"]
    ELSE [raised |-> ~IsStr(obj.create_key) \/ ~IsStr(obj.has_console_access),
          groups |-> obj.groups, create_key |-> Lower(obj.create_key),
          has_console_access |-> Lower(obj.has_console_access), path |-> obj.path]

Resource(kind, user, groups, path) ==
    [kind |-> kind, user |-> user, groups |-> groups, path |-> path]

\* Lines 15-27: True for every configured user that get_user finds.
LoginProfileCheck(cfg, existing) ==
    [u \in Range(Keys(cfg)) |-> u \in existing]

\* Lines 45-64: the user (its groups field is the "Groups" tag) and, when it
\* has groups, its membership.
DeclareUserAndGroups(username, o) ==
    << Resource("User", username, o.groups, o.path) >>
    \o (IF o.groups # << >>
        THEN << Resource("UserGroupMembership", username, o.groups, "") >>
        ELSE << >>)

\* Lines 66-69: the access key.
DeclareAccessKey(username, o) ==
    IF o.create_key = "yes"
    THEN << Resource("AccessKey", username, << >>, "") >>
    ELSE << >>

\* Lines 73-82: the login profile.
DeclareLoginProfile(username, o, check) ==
    IF o.has_console_access = "yes" /\ ~check
    THEN << Resource("UserLoginProfile", username, << >>, "") >>
    ELSE << >>

Export(user, key, value) == [user |-> user, key |-> key, value |-> value]

\* Lines 68-69, 89, 92-93: the outputs of one entry.
ExportsOf(username, o, check) ==
    (IF o.create_key = "yes"
     THEN {Export(username, "accessKeyId", "created"),
           Export(username, "secretAccessKey", "created")}
     ELSE {})
    \cup
    (IF o.has_console_access = "yes" /\ ~check
     THEN {Export(username, "generatedPassword", "created")}
     ELSE IF o.has_console_access = "yes"
     THEN {Export(username, "generatedPassword", "not available")}
     ELSE {})

\* Lines 32-93: the loop over users_dict.items(), from entry i on. An entry
\* that raises ends the run.
RECURSIVE UserLoop(_, _, _, _)
UserLoop(cfg, i, check, acc) ==
    IF i > Len(cfg) THEN acc
    ELSE LET username == cfg[i].name
             o == UserObj(cfg[i].obj)
         IN IF o.raised
            THEN [acc EXCEPT !.raised = TRUE]
            ELSE UserLoop(cfg, i + 1, check,
                   [resources |-> acc.resources
                                    \o DeclareUserAndGroups(username, o)
                                    \o DeclareAccessKey(username, o)
                                    \o DeclareLoginProfile(username, o, check[username]),
                    exports |-> acc.exports \cup ExportsOf(username, o, check[username]),
                    raised |-> FALSE])

NoProgram == [resources |-> << >>, exports |-> {}, raised |-> FALSE]

\* The whole program on a users mapping, given the users IAM holds.
UserStackProgram(cfg, existing) ==
    UserLoop(cfg, 1, LoginProfileCheck(cfg, existing), NoProgram)

----------------------------------------------------------------------------
(* The execution engine on the user stack: `pulumi up` compares the        *)
(* resources the program declares (by resource name, here kind and user)   *)
(* with the ones it tracks, creates the untracked, updates the changed and *)
(* deletes the ones no longer declared.                                    *)

Tracked(st, kind, u) == \E r \in st : r.kind = kind /\ r.user = u
TrackedRes(st, kind, u) == CHOOSE r \in st : r.kind = kind /\ r.user = u
Declares(prog, kind, u) == \E r \in Range(prog.resources) : r.kind = kind /\ r.user = u
DeclaredRes(prog, kind, u) ==
    CHOOSE r \in Range(prog.resources) : r.kind = kind /\ r.user = u

OpOf(st, r) ==
    IF ~Tracked(st, r.kind, r.user) THEN "create"
    ELSE IF r \in st THEN "same"
    ELSE "update"

\* The plan a preview shows: one step per declared resource, in the order of
\* declaration, and the deletions.
PlanSteps(prog, st) ==
    [i \in 1..Len(prog.resources) |->
        [op |-> OpOf(st, prog.resources[i]), res |-> prog.resources[i]]]
PlanCreates(prog, st) == {r \in Range(prog.resources) : OpOf(st, r) = "create"}
PlanDeletes(prog, st) == {r \in st : ~Declares(prog, r.kind, r.user)}

\* What IAM holds and the engine tracks for one user.
View(u, users, keys, login, groups, path, st) ==
    [exists |-> u \in users, keys |-> keys[u], login |-> login[u],
     groups |-> groups[u], path |-> path[u],
     st |-> {r \in st : r.user = u}, failed |-> FALSE]

Untrack(v, kind) == {r \in v.st : r.kind # kind}

\* aws.iam.User: CreateUser fails when the name is taken; a changed path or
\* tag is an in-place update.
StepUser(prog, u, v) ==
    IF ~Declares(prog, "User", u) THEN v
    ELSE LET r == DeclaredRes(prog, "User", u)
         IN CASE OpOf(v.st, r) = "create" /\ v.exists -> [v EXCEPT !.failed = TRUE]
              [] OpOf(v.st, r) = "create" /\ ~v.exists ->
                    [v EXCEPT !.exists = TRUE, !.path = r.path, !.st = @ \cup {r}]
              [] OpOf(v.st, r) = "update" ->
                    [v EXCEPT !.path = r.path, !.st = Untrack(v, "User") \cup {r}]
              [] OTHER -> v

UserReady(prog, u, v) == Tracked(v.st, "User", u)

\* aws.iam.UserGroupMembership: adds the user to its groups; an update adds
\* the new groups and removes the ones dropped from its own list. Groups
\* the resource does not list are left alone.
StepMembership(prog, u, v) ==
    IF ~Declares(prog, "UserGroupMembership", u) \/ ~UserReady(prog, u, v) THEN v
    ELSE LET r == DeclaredRes(prog, "UserGroupMembership", u)
             new == Range(r.groups)
         IN CASE OpOf(v.st, r) = "create" ->
                    [v EXCEPT !.groups = @ \cup new, !.st = @ \cup {r}]
              [] OpOf(v.st, r) = "update" ->
                    LET old == Range(TrackedRes(v.st, "UserGroupMembership", u).groups)
                    IN [v EXCEPT !.groups = (@ \ (old \ new)) \cup new,
                                 !.st = Untrack(v, "UserGroupMembership") \cup {r}]
              [] OTHER -> v

\* aws.iam.AccessKey: CreateAccessKey fails at the limit of two keys.
StepAccessKey(prog, u, v) ==
    IF ~Declares(prog, "AccessKey", u) \/ ~UserReady(prog, u, v) THEN v
    ELSE LET r == DeclaredRes(prog, "AccessKey", u)
         IN CASE OpOf(v.st, r) = "create" /\ v.keys >= KeyLimit -> [v EXCEPT !.failed = TRUE]
              [] OpOf(v.st, r) = "create" /\ v.keys < KeyLimit ->
                    [v EXCEPT !.keys = @ + 1, !.st = @ \cup {r}]
              [] OTHER -> v

\* aws.iam.UserLoginProfile: CreateLoginProfile fails when one exists.
StepLoginProfile(prog, u, v) ==
    IF ~Declares(prog, "UserLoginProfile", u) \/ ~UserReady(prog, u, v) THEN v
    ELSE LET r == DeclaredRes(prog, "UserLoginProfile", u)
         IN CASE OpOf(v.st, r) = "create" /\ v.login -> [v EXCEPT !.failed = TRUE]
              [] OpOf(v.st, r) = "create" /\ ~v.login ->
                    [v EXCEPT !.login = TRUE, !.st = @ \cup {r}]
              [] OTHER -> v

\* The creates and updates of one user, in dependency order.
StepsOf(prog, u, v) ==
    StepLoginProfile(prog, u,
        StepAccessKey(prog, u,
            StepMembership(prog, u,
                StepUser(prog, u, v))))

\* The deletions of one user: dependents first, then the user, which IAM
\* refuses to delete while it still has an access key or a login profile.
DeletesOf(prog, u, v) ==
    LET gone(kind) == Tracked(v.st, kind, u) /\ ~Declares(prog, kind, u)
        v1 == IF gone("UserLoginProfile")
              THEN [v EXCEPT !.login = FALSE, !.st = Untrack(v, "UserLoginProfile")]
              ELSE v
        v2 == IF gone("AccessKey")
              THEN [v1 EXCEPT !.keys = IF @ > 0 THEN @ - 1 ELSE 0,
                              !.st = Untrack(v1, "AccessKey")]
              ELSE v1
        v3 == IF gone("UserGroupMembership")
              THEN [v2 EXCEPT !.groups = @ \ Range(TrackedRes(v.st, "UserGroupMembership", u).groups),
                              !.st = Untrack(v2, "UserGroupMembership")]
              ELSE v2
    IN IF ~gone("User") THEN v3
       ELSE IF v3.keys > 0 \/ v3.login
       THEN [v3 EXCEPT !.groups = {}, !.failed = TRUE]
       ELSE [v3 EXCEPT !.exists = FALSE, !.groups = {}, !.keys = 0, !.login = FALSE,
                       !.path = "/", !.st = Untrack(v3, "User")]

\* The update as a whole: every user's creates and updates; the deletions
\* run only when none of those failed. A program that raised applies nothing.
ViewAfterSteps(prog, u) ==
    StepsOf(prog, u, View(u, awsUsers, awsKeys, awsLogin, awsGroups, awsPath, pulumiState))

UpdateFailed(prog) == \E u \in Users : ViewAfterSteps(prog, u).failed

ViewAfterUp(prog, u) ==
    IF prog.raised
    THEN View(u, awsUsers, awsKeys, awsLogin, awsGroups, awsPath, pulumiState)
    ELSE IF UpdateFailed(prog) THEN ViewAfterSteps(prog, u)
    ELSE DeletesOf(prog, u, ViewAfterSteps(prog, u))

----------------------------------------------------------------------------
(* `pulumi up` on the user stack: the program run, then the apply.         *)

\* No manage_users / create_user run has just finished.
NoOut == [op |-> "none", user |-> "", shown |-> {}, issues |-> {}, errors |-> {},
          warnings |-> {}, selected |-> << >>, entered |-> << >>, granted |-> FALSE,
          written |-> FALSE, menu |-> "", ran_in |-> ""]

\* An error of an IAM call about a user, by its error code.
ErrorOf(u, code) == [user |-> u, code |-> code]

\* No import_user run has just finished.
NoImportRun ==
    [ran |-> FALSE, exported |-> FALSE, aborted |-> FALSE, proceed |-> "no",
     users_to_import |-> << >>, issued |-> {}, failed |-> {}, lookupFailed |-> {},
     order |-> << >>, messages |-> {}]

Preview ==
    /\ pc \in {"idle", "up"}
    /\ IF pc = "idle" THEN Start ELSE ops' = ops
    /\ program' = UserStackProgram(users_config, awsUsers)
    /\ pc' = "planned"
    /\ importRun' = NoImportRun
    /\ out' = NoOut
    /\ UNCHANGED << gvars, pvars, host, aws, users_config, pulumiState, lastApplied, operatorRemoved, edit >>

Apply ==
    /\ pc = "planned"
    /\ awsUsers' = {u \in Users : ViewAfterUp(program, u).exists}
    /\ awsKeys' = [u \in Users |-> ViewAfterUp(program, u).keys]
    /\ awsLogin' = [u \in Users |-> ViewAfterUp(program, u).login]
    /\ awsGroups' = [u \in Users |-> ViewAfterUp(program, u).groups]
    /\ awsPath' = [u \in Users |-> ViewAfterUp(program, u).path]
    /\ pulumiState' = UNION {ViewAfterUp(program, u).st : u \in Users}
    /\ pc' = "idle"
    /\ lastApplied' = TRUE
    /\ program' = NoProgram
    /\ importRun' = NoImportRun
    /\ out' = NoOut
    /\ UNCHANGED << gvars, pvars, host, users_config, operatorRemoved, edit, ops >>

----------------------------------------------------------------------------
(* import_user.py                                                          *)

\* The resource name the program gives to a resource of a user.
ResourceName(kind, u) ==
    CASE kind = "User" -> << "user", u >>
      [] kind = "UserGroupMembership" -> << "userGroupMembership", u >>
      [] kind = "AccessKey" -> << "accessKey", u >>
      [] OTHER -> << "login", u >>

TypeOf(kind) ==
    CASE kind = "User" -> "aws:iam/user:User"
      [] kind = "UserGroupMembership" -> "aws:iam/userGroupMembership:UserGroupMembership"
      [] kind = "AccessKey" -> "aws:iam/accessKey:AccessKey"
      [] OTHER -> "aws:iam/userLoginProfile:UserLoginProfile"

\* `pulumi stack export`: the tracked resources with their type and URN
\* (stack, project, type, name); nothing when the command fails.
StackExport(st, ok) ==
    IF ok
    THEN {[type |-> TypeOf(r.kind),
           urn |-> << "urn:pulumi:stack", "project", TypeOf(r.kind),
                      ResourceName(r.kind, r.user) >>] : r \in st}
    ELSE {}

\* Lines 31-46: the names of the tracked resources of one type, read from
\* the fourth part of their URN.
ExistingNames(resources, type) ==
    {res.urn[4] : res \in {x \in resources : x.type = type /\ Len(x.urn) > 3}}

\* Lines 13-21: list_users, in the order IAM lists them.
UserOrder == << "alice", "bob" >>
UserList(users) == SelectSeq(UserOrder, LAMBDA u : u \in users)

\* Lines 57-58: the groups IAM lists for a user.
GroupsForUser(u) == Listed(awsGroups[u])

\* What IAM answers to get_login_profile.
GetLoginProfile(u) == IF awsLogin[u] THEN "LoginProfile" ELSE "NoSuchEntity"

\* Faulty variant: the not-found answer is let through as an exception.
LoginProfileProbeRaises(u) ==
    [value |-> "yes", raised |-> GetLoginProfile(u) = "NoSuchEntity"]

\* Lines 60-66: has_console_access is "yes" when the login profile is found
\* and stays "no" on NoSuchEntityException, which is not raised further.
LoginProfileProbe(u) ==
    [value |-> IF GetLoginProfile(u) = "NoSuchEntity" THEN "no" ELSE "yes",
     raised |-> FALSE]

\* Lines 61-78: the entry recorded for a remote user.
RemoteEntry(u) ==
    DictObj(GroupsForUser(u),
            IF awsKeys[u] > 0 THEN "yes" ELSE "no",
            LoginProfileProbe(u).value,
            awsPath[u])

\* Lines 49-78: users_dict, built from the remote users alone.
ImportedUsersDict(user_list) ==
    [i \in 1..Len(user_list) |-> [name |-> user_list[i], obj |-> RemoteEntry(user_list[i])]]

\* Faulty variant: every remote user is imported, tracked or not.
UsersToImportAll(user_list, existing_user_names) == user_list

\* Lines 80-86: the remote users whose resource name is not tracked.
UsersToImport(user_list, existing_user_names) ==
    SelectSeq(user_list, LAMBDA u : << "user", u >> \notin existing_user_names)

ImportCmd(kind, u) == [kind |-> kind, user |-> u]

\* Faulty variant: the membership import does not depend on the outcome of
\* the user import.
ImportStepNoContinue(u, users_dict, existing_group_memberships, okUsers) ==
    << ImportCmd("User", u) >>
    \o (IF /\ Value(users_dict, u).groups # << >>
           /\ << "userGroupMembership", u >> \notin existing_group_memberships
        THEN << ImportCmd("UserGroupMembership", u) >>
        ELSE << >>)

\* Lines 119-143: the commands of one pass of the loop, given the users whose
\* own import succeeds: the user import, then, unless it failed (continue),
\* the import of an untracked membership of a user that has groups.
ImportStep(u, users_dict, existing_group_memberships, okUsers) ==
    << ImportCmd("User", u) >>
    \o (IF /\ u \in okUsers
           /\ Value(users_dict, u).groups # << >>
           /\ << "userGroupMembership", u >> \notin existing_group_memberships
        THEN << ImportCmd("UserGroupMembership", u) >>
        ELSE << >>)

\* Faulty variant: the loop ends at the first user import that fails.
RECURSIVE ImportLoopBreaks(_, _, _, _, _)
ImportLoopBreaks(users_to_import, i, users_dict, existing_group_memberships, okUsers) ==
    IF i > Len(users_to_import) THEN << >>
    ELSE ImportStep(users_to_import[i], users_dict, existing_group_memberships, okUsers)
         \o (IF users_to_import[i] \in okUsers
             THEN ImportLoopBreaks(users_to_import, i + 1, users_dict,
                                   existing_group_memberships, okUsers)
             ELSE << >>)

\* Lines 118-143: the import commands in the order they are issued, from
\* user i of users_to_import on.
RECURSIVE ImportLoop(_, _, _, _, _)
ImportLoop(users_to_import, i, users_dict, existing_group_memberships, okUsers) ==
    IF i > Len(users_to_import) THEN << >>
    ELSE ImportStep(users_to_import[i], users_dict, existing_group_memberships, okUsers)
         \o ImportLoop(users_to_import, i + 1, users_dict,
                       existing_group_memberships, okUsers)

\* Lines 118-143: the import commands issued.
IssuedImports(users_to_import, users_dict, existing_group_memberships, okUsers) ==
    Range(ImportLoop(users_to_import, 1, users_dict, existing_group_memberships, okUsers))

\* A line the script prints about a user or a command it passes over or
\* fails on.
Message(kind, about, text) == [kind |-> kind, about |-> about, text |-> text]

\* Lines 84-86, 93-94, 99-100, 126-127, 142-143: the reason messages of a
\* run. The outcome of a membership import (line 141) is not looked at.
ImportMessages(user_list, users_to_import, users_dict, tracked, proceed, okUsers) ==
    {Message("skip", ImportCmd("User", u), "already exists in Pulumi state - skipping") :
        u \in Range(user_list) \ Range(users_to_import)}
    \cup (IF users_to_import = << >>
          THEN {Message("skip", ImportCmd("run", ""), "No users to import")}
          ELSE IF proceed # "yes"
          THEN {Message("skip", ImportCmd("run", ""), "Import cancelled.")}
          ELSE {Message("fail", ImportCmd("User", u), "Failed to import user") :
                    u \in Range(users_to_import) \ okUsers}
               \cup
               {Message("skip", ImportCmd("UserGroupMembership", u),
                        "Group membership already exists - skipping") :
                    u \in {x \in Range(users_to_import) \cap okUsers :
                             /\ Value(users_dict, x).groups # << >>
                             /\ << "userGroupMembership", x >> \in tracked}})

\* What `pulumi import` adds to the engine's state for a command that
\* succeeds: the resource as IAM holds it.
ImportedResource(cmd) ==
    IF cmd.kind = "User"
    THEN Resource("User", cmd.user, << >>, awsPath[cmd.user])
    ELSE Resource("UserGroupMembership", cmd.user, GroupsForUser(cmd.user), "")

\* A run in which a lookup (list_groups_for_user, get_login_profile other
\* than not-found, list_access_keys) raises ends there: nothing is written.
ImportUserAborts(failing) ==
    /\ pc = "idle"
    /\ Start
    /\ failing # {}
    /\ failing \subseteq awsUsers
    /\ importRun' = [NoImportRun EXCEPT !.ran = TRUE, !.aborted = TRUE,
                                        !.lookupFailed = failing]
    /\ lastApplied' = FALSE
    /\ out' = NoOut
    /\ UNCHANGED << gvars, pvars, host, aws, users_config, pulumiState, program, pc, operatorRemoved, edit >>

\* The content of user_stack/__main__.py: the program as shipped or as
\* edited by the operator; lines 110-115, the content written for the time
\* of the import; and a file that does not exist.
UserStackText == "user stack program"
EditedText == "user stack program, edited"
TemporaryText == "import-only program"
NoFile == "no such file"

\* Lines 105-107: __main__.py is copied to __main__.py.backup.
BackupProgram(h) == [h EXCEPT !.backup = h.main_py]

\* Lines 109-115: __main__.py is overwritten.
WriteTemporaryProgram(h) == [h EXCEPT !.main_py = TemporaryText]

\* Faulty variant: nothing is written back.
RestoreNothing(h) == h

\* Lines 147-151: the backup is read and written to __main__.py.
RestoreProgram(h) == [h EXCEPT !.main_py = h.backup]

\* Line 154: rm __main__.py.backup.
RemoveBackup(h) == [h EXCEPT !.backup = NoFile]

\* Lines 7-157: main. The config is written at line 90, before the operator
\* is asked; the program file is replaced for the time of the imports.
ImportUser(exportOk, proceed, okUsers, okMemberships) ==
    LET user_list == UserList(awsUsers)
        resources == StackExport(pulumiState, exportOk)
        existing_user_names == ExistingNames(resources, "aws:iam/user:User")
        existing_group_memberships ==
            ExistingNames(resources, "aws:iam/userGroupMembership:UserGroupMembership")
        users_dict == ImportedUsersDict(user_list)
        users_to_import == UsersToImport(user_list, existing_user_names)
        goes == users_to_import # << >> /\ proceed = "yes"
        \* an import of a name the engine already tracks fails
        succeeded == {u \in okUsers : ~Tracked(pulumiState, "User", u)}
        order == IF goes
                 THEN ImportLoop(users_to_import, 1, users_dict,
                                 existing_group_memberships, succeeded)
                 ELSE << >>
        issued == IF goes
                  THEN IssuedImports(users_to_import, users_dict,
                                     existing_group_memberships, succeeded)
                  ELSE {}
        done == {c \in issued :
                    \/ c.kind = "User" /\ c.user \in succeeded
                    \/ c.kind = "UserGroupMembership" /\ c.user \in okMemberships}
        \* an exception of a probe ends the run before anything is written
        probeRaised == \E u \in awsUsers : LoginProfileProbe(u).raised
    IN /\ pc = "idle"
       /\ Start
       /\ users_config' = IF probeRaised THEN users_config ELSE users_dict
       /\ pulumiState' = IF probeRaised THEN pulumiState
                         ELSE pulumiState \cup {ImportedResource(c) : c \in done}
       /\ importRun' = IF probeRaised
                       THEN [NoImportRun EXCEPT !.ran = TRUE, !.aborted = TRUE]
                       ELSE
                       [ran |-> TRUE, exported |-> exportOk, aborted |-> FALSE,
                        proceed |-> proceed,
                        users_to_import |-> users_to_import, issued |-> issued,
                        failed |-> issued \ done, lookupFailed |-> {},
                        order |-> order,
                        messages |-> ImportMessages(user_list, users_to_import, users_dict,
                                                    existing_group_memberships, proceed,
                                                    succeeded)]
       /\ host' = IF probeRaised \/ ~goes THEN host
                  ELSE RemoveBackup(RestoreProgram(WriteTemporaryProgram(BackupProgram(host))))
       /\ lastApplied' = FALSE
       /\ out' = NoOut
       /\ UNCHANGED << gvars, pvars, aws, program, pc, operatorRemoved, edit >>

----------------------------------------------------------------------------
(* sync_users.py                                                           *)

\* Lines 24-61, without the check of lines 32-34 (faulty variant): the
\* entry of every remote user is taken from IAM.
RECURSIVE SyncLoopOverwrites(_, _, _)
SyncLoopOverwrites(user_list, i, current_users) ==
    IF i > Len(user_list) THEN current_users
    ELSE SyncLoopOverwrites(user_list, i + 1,
                            Put(current_users, user_list[i], RemoteEntry(user_list[i])))

\* Lines 24-61: the remote users not yet in the config are appended.
RECURSIVE SyncLoop(_, _, _)
SyncLoop(user_list, i, current_users) ==
    IF i > Len(user_list) THEN current_users
    ELSE LET username == user_list[i]
         IN IF HasKey(current_users, username)
            THEN SyncLoop(user_list, i + 1, current_users)
            ELSE SyncLoop(user_list, i + 1,
                          Put(current_users, username, RemoteEntry(username)))

\* Lines 5-71: main, run from the menu entry `menu` of manage_users (none
\* when the script is started by hand) in the directory ran_in. Lines
\* 63-69: the config is written only when a user was added.
SyncUsersRun(menu, ran_in) ==
    LET synced == SyncLoop(UserList(awsUsers), 1, users_config)
        \* an exception of a probe ends the run before anything is written
        raising == {u \in awsUsers : ~HasKey(users_config, u) /\ LoginProfileProbe(u).raised}
    IN /\ pc = "idle"
       /\ Start
       /\ users_config' = IF raising = {} /\ Len(synced) > Len(users_config)
                          THEN synced ELSE users_config
       /\ importRun' = NoImportRun
       /\ lastApplied' = FALSE
       /\ out' = [NoOut EXCEPT !.op = "sync",
                               !.errors = {ErrorOf(u, "NoSuchEntity") : u \in raising},
                               !.written = raising = {} /\ Len(synced) > Len(users_config),
                               !.menu = menu, !.ran_in = ran_in]
       /\ UNCHANGED << gvars, pvars, aws, pulumiState, program, pc, operatorRemoved, edit >>

\* sync_users.py started by hand.
SyncUsers == SyncUsersRun("", "") /\ UNCHANGED host

\* A run in which a lookup for a user not yet in the config raises ends
\* there: nothing is written.
SyncUsersAborts ==
    /\ pc = "idle"
    /\ Start
    /\ \E u \in awsUsers :
          /\ ~HasKey(users_config, u)
          /\ out' = [NoOut EXCEPT !.op = "sync", !.errors = {ErrorOf(u, "ServiceFailure")}]
    /\ importRun' = NoImportRun
    /\ lastApplied' = FALSE
    /\ UNCHANGED << gvars, pvars, host, aws, users_config, pulumiState, program, pc, operatorRemoved, edit >>

----------------------------------------------------------------------------
(* manage_users.py: fix_user_access_keys                                   *)

\* What IAM answers to list_access_keys for a user of the config.
ListAccessKeys(u, failing) ==
    IF u \in failing THEN [code |-> "ServiceFailure", count |-> 0]
    ELSE IF u \notin awsUsers THEN [code |-> "NoSuchEntity", count |-> 0]
    ELSE [code |-> "ok", count |-> awsKeys[u]]

\* Lines 529-543: the users with two keys or more, in the order of the
\* config. A user IAM does not know is passed over; any other error is
\* printed and the loop goes on.
UsersWithIssues(current_users, failing) ==
    SelectSeq(Keys(current_users),
              LAMBDA u : ListAccessKeys(u, failing).code = "ok"
                            /\ ListAccessKeys(u, failing).count >= 2)

\* Lines 540-541: the errors printed.
KeyCheckErrors(current_users, failing) ==
    {ErrorOf(u, ListAccessKeys(u, failing).code) :
        u \in {x \in Range(Keys(current_users)) :
                 ListAccessKeys(x, failing).code \notin {"ok", "NoSuchEntity"}}}

\* Lines 188-214, with every answer taken as yes (faulty variant).
YesToEverything(response, default) == TRUE

\* Lines 188-214: get_yes_no_input on an answer already stripped and in
\* lower case; an empty answer stands for the default.
GetYesNoInput(response, default) ==
    LET valid_yes == {"yes", "y", "true", "1"}
    IN (IF response = "" THEN default ELSE response) \in valid_yes

\* Lines 488-613: the check of every user of the config, then, for the user
\* and the key the operator selects and confirms, delete_access_key.
FixUserAccessKeys(failing, user_idx, key_idx, confirm) ==
    LET users_with_issues == UsersWithIssues(users_config, failing)
        selected == user_idx \in 1..Len(users_with_issues)
        username == users_with_issues[user_idx]
        deletes == /\ selected
                   /\ key_idx \in 1..awsKeys[username]
                   /\ GetYesNoInput(confirm, "no")
    IN /\ pc = "idle"
       /\ Start
       /\ failing \subseteq Range(Keys(users_config))
       /\ awsKeys' = IF deletes THEN [awsKeys EXCEPT ![username] = @ - 1] ELSE awsKeys
       /\ out' = [NoOut EXCEPT !.op = "fix",
                               !.user = IF selected THEN username ELSE "",
                               !.issues = Range(users_with_issues),
                               !.errors = KeyCheckErrors(users_config, failing)]
       /\ importRun' = NoImportRun
       /\ lastApplied' = FALSE
       /\ UNCHANGED << gvars, pvars, host, awsUsers, awsLogin, awsGroups, awsPath, users_config,
                       pulumiState, program, pc, operatorRemoved, edit >>

\* create_user.py lines 89-131: one call of check_access_key_limit. With
\* two keys or more and the answer yes, the key with the number entered is
\* deleted when the number is one of those listed. A user IAM does not
\* know makes list_access_keys raise, which is caught at line 129.
CheckAccessKeyLimit(username, delete_key, selection) ==
    LET key_count == awsKeys[username]
        key_idx == selection - 1
        deletes == /\ username \in awsUsers
                   /\ key_count >= KeyLimit
                   /\ delete_key = "yes"
                   /\ 0 <= key_idx /\ key_idx < key_count
    IN /\ pc = "idle"
       /\ Start
       /\ awsKeys' = IF deletes THEN [awsKeys EXCEPT ![username] = @ - 1] ELSE awsKeys
       /\ out' = [NoOut EXCEPT !.op = "keycheck", !.user = username,
                               !.issues = IF username \in awsUsers /\ key_count >= KeyLimit
                                          THEN {username} ELSE {},
                               !.errors = IF username \in awsUsers THEN {}
                                          ELSE {ErrorOf(username, "NoSuchEntity")}]
       /\ importRun' = NoImportRun
       /\ lastApplied' = FALSE
       /\ UNCHANGED << gvars, pvars, host, awsUsers, awsLogin, awsGroups, awsPath, users_config,
                       pulumiState, program, pc, operatorRemoved, edit >>

----------------------------------------------------------------------------
(* edit_user.py                                                            *)

NoEdit == [user |-> "", groups |-> << >>]

\* Python list indexing: -len <= i < len, a negative index counting from
\* the end; anything else raises IndexError.
IndexOk(list, i) == -Len(list) <= i /\ i < Len(list)
IndexOf(list, i) == IF i >= 0 THEN list[i + 1] ELSE list[Len(list) + i + 1]

\* list.remove(x): drops the first occurrence.
RECURSIVE ListRemove(_, _)
ListRemove(list, x) ==
    IF list = << >> THEN << >>
    ELSE IF Head(list) = x THEN Tail(list)
    ELSE << Head(list) >> \o ListRemove(Tail(list), x)

\* Lines 54-58: every group of IAM.
AllGroups == GroupOrder

\* Faulty variant: the IAM groups of the selected user are read as none.
EditAwsGroupsNone(username) == << >>

\* Lines 38-39: the groups IAM lists for the selected user.
EditAwsGroups(username) == Listed(awsGroups[username])

\* Lines 24-49: the user is selected by number; when the config groups
\* differ from the IAM groups the operator may take the IAM groups.
EditSelect(number, sync_choice) ==
    LET selection == number - 1
        names == Keys(users_config)
        username == IndexOf(names, selection)
        user_config == Value(users_config, username)
        aws_groups == EditAwsGroups(username)
        current_groups ==
            IF Range(user_config.groups) # Range(aws_groups) /\ sync_choice = "yes"
            THEN aws_groups
            ELSE user_config.groups
    IN /\ pc = "idle"
       /\ Start
       /\ IndexOk(names, selection)
       /\ user_config.isdict
       /\ username \in awsUsers
       /\ edit' = [user |-> username, groups |-> current_groups]
       /\ pc' = "editing"
       /\ importRun' = NoImportRun
       /\ out' = NoOut
       /\ UNCHANGED << gvars, pvars, host, aws, users_config, pulumiState, program, lastApplied,
                       operatorRemoved >>

\* Lines 74-84: option 1, add a group by number.
EditAdd(number) ==
    LET group_idx == number - 1
        group_to_add == IndexOf(AllGroups, group_idx)
    IN /\ pc = "editing"
       /\ IndexOk(AllGroups, group_idx)
       /\ edit' = IF group_to_add \notin Range(edit.groups)
                  THEN [edit EXCEPT !.groups = Append(@, group_to_add)]
                  ELSE edit
       /\ operatorRemoved' = operatorRemoved \ {<< edit.user, group_to_add >>}
       /\ out' = NoOut
       /\ UNCHANGED << gvars, pvars, host, aws, users_config, pulumiState, program, pc, lastApplied,
                       importRun, ops >>

\* Lines 86-99: option 2, remove one of the current groups by number.
EditRemove(number) ==
    LET group_idx == number - 1
        group_to_remove == IndexOf(edit.groups, group_idx)
    IN /\ pc = "editing"
       /\ edit.groups # << >>
       /\ IndexOk(edit.groups, group_idx)
       /\ edit' = [edit EXCEPT !.groups = ListRemove(@, group_to_remove)]
       /\ operatorRemoved' = operatorRemoved \cup {<< edit.user, group_to_remove >>}
       /\ out' = NoOut
       /\ UNCHANGED << gvars, pvars, host, aws, users_config, pulumiState, program, pc, lastApplied,
                       importRun, ops >>

\* Lines 101-121: option 3, the groups are saved and deployed on request.
EditDone(deploy) ==
    /\ pc = "editing"
    /\ users_config' = Put(users_config, edit.user,
                           [Value(users_config, edit.user) EXCEPT !.groups = edit.groups])
    /\ edit' = NoEdit
    /\ pc' = IF deploy = "yes" THEN "up" ELSE "idle"
    /\ lastApplied' = FALSE
    /\ out' = NoOut
    /\ UNCHANGED << gvars, pvars, host, aws, pulumiState, program, operatorRemoved, importRun, ops >>

----------------------------------------------------------------------------
(* create_user.py, and the name and path rules of manage_users.py. Text is *)
(* handled character by character: CharsOf spells a string out and TextOf  *)
(* reads it back.                                                          *)

\* The longest name IAM takes.
MaxUsernameLen == 64

\* A name of MaxUsernameLen + 1 characters.
LongName == "xxxxxxxxxxxxxxxxxxxxxxxxxxxxxxxxxxxxxxxxxxxxxxxxxxxxxxxxxxxxxxxxx"

\* The strings that are typed in or come out of the script.
Texts ==
    {"", "/", "alice", "bob", " bob ", "bad name!", "d.e@x", LongName,
     "dev", "/dev", "/dev/", "/a b/", "/system/", "A", " A ", " "}

CharsOf(s) ==
    CASE s = "" -> << >>
      [] s = "/" -> << "/" >>
      [] s = "alice" -> << "a", "l", "i", "c", "e" >>
      [] s = "bob" -> << "b", "o", "b" >>
      [] s = " bob " -> << " ", "b", "o", "b", " " >>
      [] s = "bad name!" -> << "b", "a", "d", " ", "n", "a", "m", "e", "!" >>
      [] s = "d.e@x" -> << "d", ".", "e", "@", "x" >>
      [] s = LongName -> [i \in 1..(MaxUsernameLen + 1) |-> "x"]
      [] s = "dev" -> << "d", "e", "v" >>
      [] s = "/dev" -> << "/", "d", "e", "v" >>
      [] s = "/dev/" -> << "/", "d", "e", "v", "/" >>
      [] s = "/a b/" -> << "/", "a", " ", "b", "/" >>
      [] s = "/system/" -> << "/", "s", "y", "s", "t", "e", "m", "/" >>
      [] s = "A" -> << "A" >>
      [] s = " A " -> << " ", "A", " " >>
      [] s = " " -> << " " >>

TextOf(chars) == CHOOSE s \in Texts : CharsOf(s) = chars

\* str.strip(chars) on a sequence of characters.
RECURSIVE LStrip(_, _)
LStrip(chars, drop) ==
    IF chars # << >> /\ Head(chars) \in drop THEN LStrip(Tail(chars), drop) ELSE chars

RECURSIVE RStrip(_, _)
RStrip(chars, drop) ==
    IF chars # << >> /\ chars[Len(chars)] \in drop
    THEN RStrip(SubSeq(chars, 1, Len(chars) - 1), drop)
    ELSE chars

Whitespace == {" "}
Strip(s) == TextOf(RStrip(LStrip(CharsOf(s), Whitespace), Whitespace))
StripSlashes(s) == RStrip(LStrip(CharsOf(s), {"/"}), {"/"})

\* manage_users.py line 39, USERNAME_PATTERN: the characters of [\w+=,.@-],
\* among the ones that occur.
WordChars ==
    {"a", "b", "c", "d", "e", "i", "l", "m", "n", "o", "s", "t", "v", "x", "y", "_"}
UsernameChars == WordChars \cup {"+", "=", ",", ".", "@", "-"}

\* manage_users.py lines 168-176, validate_username.
ValidateUsername(username) ==
    /\ CharsOf(username) # << >>
    /\ Len(CharsOf(username)) <= MaxUsernameLen
    /\ \A i \in 1..Len(CharsOf(username)) : CharsOf(username)[i] \in UsernameChars

\* The path rule: the path starts and ends with "/".
StartsAndEndsWithSlash(path) ==
    /\ CharsOf(path) # << >>
    /\ Head(CharsOf(path)) = "/"
    /\ CharsOf(path)[Len(CharsOf(path))] = "/"

\* Lines 227-233: the default path, or the custom one with the slashes put
\* around it when one is missing.
UserPath(custom_path) ==
    IF custom_path = "" THEN "/system/"
    ELSE IF StartsAndEndsWithSlash(custom_path) THEN custom_path
    ELSE TextOf(<< "/" >> \o StripSlashes(custom_path) \o << "/" >>)

\* One item of the comma-separated groups input: a number or a name.
NumItem(n) == [isnum |-> TRUE, num |-> n, name |-> ""]
NameItem(name) == [isnum |-> FALSE, num |-> 0, name |-> name]

\* Lines 148-149: the groups of the Pulumi config when there are any, else
\* the groups of IAM.
AvailableGroups ==
    IF imported_groups # << >> THEN Keys(imported_groups) ELSE AllGroups

\* Lines 194-208: the groups the items select, in the order they are given.
RECURSIVE ParseGroups(_, _)
ParseGroups(items, available_groups) ==
    IF items = << >> THEN << >>
    ELSE LET item == Head(items)
             picked ==
                IF item.isnum
                THEN IF 0 <= item.num - 1 /\ item.num - 1 < Len(available_groups)
                     THEN << available_groups[item.num] >>
                     ELSE << >>
                ELSE IF item.name \in Range(available_groups)
                     THEN << item.name >>
                     ELSE << >>
         IN picked \o ParseGroups(Tail(items), available_groups)

\* Lines 200, 206: the warning about each item that selects nothing.
ParseWarnings(items, available_groups) ==
    {items[i] : i \in {j \in 1..Len(items) :
                         ParseGroups(<< items[j] >>, available_groups) = << >>}}

\* Faulty variant: the duplicates are kept.
DictFromKeysKeepsAll(list) == list

\* Line 211, list(dict.fromkeys(groups_list)): the first occurrence of each
\* group, in order.
RECURSIVE DictFromKeys(_)
DictFromKeys(list) ==
    IF list = << >> THEN << >>
    ELSE LET rest == DictFromKeys(SubSeq(list, 1, Len(list) - 1))
             last == list[Len(list)]
         IN IF last \in Range(rest) THEN rest ELSE Append(rest, last)

\* create_user is run while the config holds fewer entries than this.
MaxConfigLen == 2

\* Faulty variant: no name is taken.
NeverExists(current_users, new_username) == FALSE

\* create_user.py lines 168-172 and create_users.py lines 14-17: the check
\* `new_username in current_users`.
AlreadyExists(current_users, new_username) == HasKey(current_users, new_username)

\* The number of items typed in as groups.
MaxItems == 2

\* Lines 160-252 and 286-319: the new entry is written under the stripped
\* name unless that name is empty or already in the config; `pulumi up`
\* follows on request. No check of lines 236-240 applies: no group has the
\* name of a user.
CreateUser(name_input, items, create_key, has_console_access, custom_path, deploy) ==
    LET current_users == users_config
        new_username == Strip(name_input)
        groups_list == DictFromKeys(ParseGroups(items, AvailableGroups))
        user_path == UserPath(Strip(custom_path))
        refused == new_username = "" \/ AlreadyExists(current_users, new_username)
    IN /\ pc = "idle"
       /\ Start
       /\ users_config' =
             IF refused THEN users_config
             ELSE Put(current_users, new_username,
                      DictObj(groups_list, Lower(create_key), Lower(has_console_access),
                              user_path))
       /\ pc' = IF ~refused /\ deploy = "yes" THEN "up" ELSE "idle"
       /\ out' = [NoOut EXCEPT
                    !.op = "create", !.user = new_username,
                    !.selected = IF refused THEN << >>
                                 ELSE ParseGroups(items, AvailableGroups),
                    !.errors = IF refused
                               THEN {ErrorOf(new_username,
                                             IF new_username = "" THEN "UsernameEmpty"
                                             ELSE "AlreadyExists")}
                               ELSE {},
                    !.warnings = IF refused THEN {}
                                 ELSE ParseWarnings(items, AvailableGroups),
                    !.written = ~refused]
       /\ importRun' = NoImportRun
       /\ lastApplied' = FALSE
       /\ UNCHANGED << gvars, pvars, host, aws, pulumiState, program, operatorRemoved, edit >>

\* create_users.py line 20: the groups typed in, stripped, the empty ones
\* dropped.
RECURSIVE SplitGroups(_)
SplitGroups(parts) ==
    IF parts = << >> THEN << >>
    ELSE (IF Strip(Head(parts)) # "" THEN << Strip(Head(parts)) >> ELSE << >>)
         \o SplitGroups(Tail(parts))

\* create_users.py lines 4-49: the new entry is written under the stripped
\* name, with the path "/", unless the name is already in the config;
\* `pulumi up` follows on request.
CreateUsers(name_input, parts, create_key, has_console_access, deploy) ==
    LET current_users == users_config
        new_username == Strip(name_input)
        groups_list == SplitGroups(parts)
        refused == AlreadyExists(current_users, new_username)
    IN /\ pc = "idle"
       /\ Start
       /\ users_config' =
             IF refused THEN users_config
             ELSE Put(current_users, new_username,
                      DictObj(groups_list, Lower(create_key), Lower(has_console_access), "/"))
       /\ pc' = IF ~refused /\ deploy = "yes" THEN "up" ELSE "idle"
       /\ out' = [NoOut EXCEPT
                    !.op = "create_users", !.user = new_username,
                    !.selected = IF refused THEN << >> ELSE groups_list,
                    !.errors = IF refused THEN {ErrorOf(new_username, "AlreadyExists")}
                               ELSE {},
                    !.written = ~refused]
       /\ importRun' = NoImportRun
       /\ lastApplied' = FALSE
       /\ UNCHANGED << gvars, pvars, host, aws, pulumiState, program, operatorRemoved, edit >>

\* What is typed in: names, lists of up to MaxItems items, and paths.
NameInputs == {"", "alice", " bob ", "bad name!", LongName}
ItemInputs == {NumItem(1), NumItem(3), NameItem("A"), NameItem("Z")}
ItemLists == UNION {[1..n -> ItemInputs] : n \in 0..MaxItems}
PathInputs == {"", "dev", "/dev", "/a b/"}
PartInputs == {<< "" >>, << "A" >>, << " A ", " " >>}

----------------------------------------------------------------------------
(* delete_user.py                                                          *)

\* Lines 29-49: the entry under the stripped name is removed when present,
\* the config is written back and `pulumi up` runs.
DeleteUser(name_input) ==
    LET username_to_delete == Strip(name_input)
    IN /\ pc = "idle"
       /\ Start
       /\ users_config' = IF HasKey(users_config, username_to_delete)
                          THEN Del(users_config, username_to_delete)
                          ELSE users_config
       /\ operatorRemoved' = operatorRemoved \cup {<< username_to_delete, g >> : g \in Groups}
       /\ pc' = "up"
       /\ importRun' = NoImportRun
       /\ lastApplied' = FALSE
       /\ out' = [NoOut EXCEPT !.op = "delete", !.user = username_to_delete,
                               !.errors = IF HasKey(users_config, username_to_delete) THEN {}
                                          ELSE {ErrorOf(username_to_delete, "NotFound")},
                               !.written = TRUE]
       /\ UNCHANGED << gvars, pvars, host, aws, pulumiState, program, edit >>

----------------------------------------------------------------------------
(* The user side as a whole.                                               *)

\* Entries a hand-written users mapping starts with.
InitObjs ==
    {BareString,
     DictObj(<< >>, "no", "yes", "/"),
     DictObj(<< "A" >>, "yes", "no", "/system/")}

\* The users mapping before the first operation: alice absent or with one
\* of the entries above, then bob absent or a bare string.
InitConfigs ==
    {a \o b :
        a \in {<< >>} \cup {<< [name |-> "alice", obj |-> o] >> : o \in InitObjs},
        b \in {<< >>} \cup {<< [name |-> "bob", obj |-> BareString] >>}}

\* IAM before the first operation: alice absent or present with any number
\* of keys up to the limit, with or without a login profile, in no group, in
\* A or in both groups;
\* bob absent or present without keys, login profile or groups. The engine
\* tracks nothing yet.
UserInit ==
    /\ awsUsers \in SUBSET Users
    /\ awsKeys \in [Users -> 0..KeyLimit]
    /\ awsLogin \in [Users -> BOOLEAN]
    /\ awsGroups \in [Users -> SUBSET Groups]
    /\ awsPath = [u \in Users |-> "/"]
    /\ \A u \in Users \ awsUsers :
          awsKeys[u] = 0 /\ ~awsLogin[u] /\ awsGroups[u] = {}
    /\ awsKeys["bob"] = 0 /\ ~awsLogin["bob"] /\ awsGroups["bob"] = {}
    /\ awsGroups["alice"] # {"B"}
    /\ users_config \in InitConfigs
    /\ pulumiState = {}
    /\ program = NoProgram
    /\ pc = "idle"
    /\ lastApplied = FALSE
    /\ operatorRemoved = {}
    /\ importRun = NoImportRun
    /\ edit = NoEdit
    /\ out = NoOut
    /\ ops = 0

UserNext ==
    \/ Preview
    \/ Apply
    \/ \E failing \in SUBSET awsUsers : ImportUserAborts(failing)
    \/ \E exportOk \in BOOLEAN, proceed \in Flags :
          \* the outcome of the imports matters only when they are issued
          \E okUsers \in SUBSET (IF proceed = "yes" THEN awsUsers ELSE {}) :
            \E okMemberships \in SUBSET okUsers :
              ImportUser(exportOk, proceed, okUsers, okMemberships)
    \/ SyncUsers
    \/ SyncUsersAborts
    \/ \E number \in 0..(Cardinality(Users) + 1), sync_choice \in Flags :
            EditSelect(number, sync_choice)
    \/ \E number \in 0..(Cardinality(Groups) + 1) : EditAdd(number)
    \/ \E number \in 0..(Cardinality(Groups) + 1) : EditRemove(number)
    \/ \E deploy \in Flags : EditDone(deploy)
    \/ \E username_to_delete \in Users : DeleteUser(username_to_delete)


----------------------------------------------------------------------------
(* Properties of the user side.                                            *)

ConfigUsers == Range(Keys(users_config))
Entry(u) == Value(users_config, u)
WantsKey(u) == Entry(u).isdict /\ Lower(Entry(u).create_key) = "yes"
WantsConsole(u) == Entry(u).isdict /\ Lower(Entry(u).has_console_access) = "yes"
Planned == pc = "planned"
CreatesKey(u) == \E r \in PlanCreates(program, pulumiState) : r.kind = "AccessKey" /\ r.user = u

\* C1: credential ceiling. In every plan, an identity whose create_key flag
\* is "yes" and that already has two access keys in IAM gets no access key
\* created.
C1_CredentialCeiling ==
    Planned =>
        \A u \in ConfigUsers :
            (WantsKey(u) /\ awsKeys[u] = KeyLimit) => ~CreatesKey(u)

\* C2: idempotence. A plan computed right after an apply, with the config
\* unchanged, creates nothing.
C2_SecondRunCreatesNothing ==
    (Planned /\ lastApplied) => PlanCreates(program, pulumiState) = {}

\* C3: additive membership. A step removes a user from a group in IAM only
\* if the operator explicitly asked for that removal (Remove group in
\* edit_user, or the deletion of the user).
C3_AdditiveMembership ==
    [][\A u \in Users, g \in Groups :
          (g \in awsGroups[u] /\ g \notin awsGroups'[u]) => << u, g >> \in operatorRemoved]_uvars

\* C3 witness: after an apply a user is still in a remote group that its
\* entry does not list and that the operator never asked to remove.
C3_Witness ==
    /\ lastApplied
    /\ \E u \in ConfigUsers, g \in Groups :
          /\ Entry(u).isdict
          /\ Entry(u).groups # << >>
          /\ g \in awsGroups[u]
          /\ g \notin Range(Entry(u).groups)
          /\ << u, g >> \notin operatorRemoved

\* C5: login capability. In every plan, for an identity whose console flag
\* is "yes", a login profile is declared exactly when IAM has none for it,
\* and otherwise the password is exported as not available.
C5_LoginProfileWhenMissing ==
    Planned =>
        \A u \in ConfigUsers :
            WantsConsole(u) =>
                /\ Declares(program, "UserLoginProfile", u) <=> ~awsLogin[u]
                /\ awsLogin[u] =>
                      Export(u, "generatedPassword", "not available") \in program.exports

\* C6: no identity is silently destroyed. A step that drops a name from the
\* users mapping is a delete_user step.
C6_OnlyDeleteRemovesEntries ==
    [][(\E u \in Users : HasKey(users_config, u) /\ ~HasKey(users_config', u))
          => \E d \in Users : DeleteUser(d)]_uvars

\* C8: an existing credential is not duplicated. In every plan an access key
\* is created only for an identity that has no access key in IAM.
C8_KeyOnlyWhenNone ==
    Planned => \A u \in Users : CreatesKey(u) => awsKeys[u] = 0

ImportFinished(run) == run.ran /\ ~run.aborted
ImportWentAhead(run) == ImportFinished(run) /\ run.exported /\ run.proceed = "yes"

\* What C7 says of one import_user step: a user import is issued exactly
\* for the remote users whose resource the engine did not track before the
\* step, and a membership import only for an untracked membership of a user
\* with at least one remote group.
ImportsExactlyUntracked ==
    \A u \in Users :
        /\ ImportCmd("User", u) \in importRun'.issued
              <=> (u \in awsUsers /\ ~Tracked(pulumiState, "User", u))
        /\ ImportCmd("UserGroupMembership", u) \in importRun'.issued
              => (~Tracked(pulumiState, "UserGroupMembership", u) /\ awsGroups[u] # {})

ResourcesOf(prog, u) == {r \in Range(prog.resources) : r.user = u}

\* C10: graceful malformed entry. In every plan the run did not raise, an
\* entry that is not a mapping declares the user alone (no groups, no access
\* key, no login profile, the root path, no output), and every entry after it
\* is still declared.
C10_MalformedEntryIsDefaulted ==
    Planned =>
        /\ ~program.raised
        /\ \A i \in 1..Len(users_config) :
              ~users_config[i].obj.isdict =>
                  /\ ResourcesOf(program, users_config[i].name)
                        = {Resource("User", users_config[i].name, << >>, "/")}
                  /\ \A e \in program.exports : e.user # users_config[i].name
                  /\ \A j \in (i + 1)..Len(users_config) :
                        Declares(program, "User", users_config[j].name)

\* C10 witness: a plan for a mapping in which a bare string precedes a
\* well-formed entry that declares more than the user.
C10_Witness ==
    /\ Planned
    /\ \E i, j \in 1..Len(users_config) :
          /\ i < j
          /\ ~users_config[i].obj.isdict
          /\ users_config[j].obj.isdict
          /\ Cardinality(ResourcesOf(program, users_config[j].name)) > 1

----------------------------------------------------------------------------
(* groups_stack/import_groups.py (and the same code in manage_users.py,    *)
(* import_groups).                                                         *)

\* A managed policy ARN, as (account, name): the account part is "aws" for
\* an AWS managed policy, arn:aws:iam::aws:policy/<name>.
Policies ==
    {<< "aws", "ReadOnlyAccess" >>, << "aws", "PowerUserAccess" >>,
     << "123456789012", "OpsPolicy" >>}
PolicyOrder ==
    << << "aws", "PowerUserAccess" >>, << "123456789012", "OpsPolicy" >>,
       << "aws", "ReadOnlyAccess" >> >>
InlineNames == {"inline-a", "inline-b"}
InlineOrder == << "inline-a", "inline-b" >>

\* list_attached_group_policies and list_group_policies, as lists.
AttachedList(g) == SelectSeq(PolicyOrder, LAMBDA a : a \in iamAttached[g])
InlineList(g) == SelectSeq(InlineOrder, LAMBDA n : n \in iamInline[g])

\* Line 80: policy_arn.startswith('arn:aws:iam::aws:policy/')
IsAwsManaged(policy_arn) == policy_arn[1] = "aws"

\* get_group_policy: the document of an inline policy (opaque).
PolicyDocument(g, policy_name) == << "document", g, policy_name >>

CustomerPolicy(policy_arn) == [policy_name |-> policy_arn[2], policy_arn |-> policy_arn]

\* Lines 64-71: the record a group starts with.
\* group['Path'] of each group of the account.
GroupPath == [g \in Groups |-> IF g = "A" THEN "/" ELSE "/system/"]

EmptyGroupRecord(g) ==
    [path |-> GroupPath[g], managed_policy_arns |-> << >>, customer_managed_policies |-> << >>,
     inline_policies |-> << >>]

\* Lines 74-91: the attached policies, split by kind; a ClientError leaves
\* both lists empty.
WithAttached(rec, g, failed) ==
    IF failed THEN rec
    ELSE [rec EXCEPT
            !.managed_policy_arns = SelectSeq(AttachedList(g), IsAwsManaged),
            !.customer_managed_policies =
                LET cust == SelectSeq(AttachedList(g), LAMBDA a : ~IsAwsManaged(a))
                IN [i \in 1..Len(cust) |-> CustomerPolicy(cust[i])]]

\* Lines 94-106: the inline policies with their documents; a ClientError at
\* the listing, or at the document of the k-th policy, keeps the ones read
\* before it (upto = 0 for a failed listing).
WithInline(rec, g, failed, upto) ==
    LET names == InlineList(g)
        n == IF failed THEN (IF upto < Len(names) THEN upto ELSE Len(names)) ELSE Len(names)
    IN [rec EXCEPT !.inline_policies =
            [i \in 1..n |-> [name |-> names[i], document |-> PolicyDocument(g, names[i])]]]

\* Lines 55-106: groups_data, one record per group of IAM.
FetchAllGroups(failedAttached, failedInline, upto) ==
    LET group_list == Listed(iamGroups)
    IN [i \in 1..Len(group_list) |->
          [name |-> group_list[i],
           obj |-> WithInline(
                      WithAttached(EmptyGroupRecord(group_list[i]), group_list[i],
                                   group_list[i] \in failedAttached),
                      group_list[i], group_list[i] \in failedInline, upto)]]

NoFetchRun == [ran |-> FALSE, failedAttached |-> {}, failedInline |-> {}]

\* Lines 197-241: main. Nothing is saved when the operator declines at
\* either prompt or when no group was found.
ImportGroups(proceed, save_confirm, failedAttached, failedInline, upto) ==
    LET groups_data == FetchAllGroups(failedAttached, failedInline, upto)
        saved == proceed = "yes" /\ groups_data # << >> /\ save_confirm = "yes"
    IN /\ gpc = "idle"
       /\ StartOnGroups
       /\ failedAttached \subseteq iamGroups
       /\ failedInline \subseteq iamGroups
       /\ imported_groups' = IF saved THEN groups_data ELSE imported_groups
       /\ fetchRun' = IF saved
                      THEN [ran |-> TRUE, failedAttached |-> failedAttached,
                            failedInline |-> failedInline]
                      ELSE NoFetchRun
       /\ UNCHANGED << urest, pvars, host, iamGroups, iamAttached, iamInline, groupState,
                       groupProgram, gpc >>

----------------------------------------------------------------------------
(* groups_stack/__main__.py: the groups stack program.                      *)

GroupResource(kind, name, group, prop) ==
    [kind |-> kind, name |-> name, group |-> group, prop |-> prop]

\* dict.get(key, default) on an entry.
Field(obj, key, default) == IF key \in DOMAIN obj THEN obj[key] ELSE default

\* An entry, or a policy_info, that is not a mapping (a bare string).
Bare(value) == [bare |-> TRUE, value |-> value]
IsMapping(obj) == "bare" \notin DOMAIN obj

\* A policy_arn that is None or empty.
NoArn == << >>

\* Faulty variant: the group is not declared.
DeclareNoGroup(group_name, group_config) == << >>

\* Lines 32-39: the group itself, adopted with import_.
DeclareGroup(group_name, group_config) ==
    << GroupResource("Group", << "group", group_name >>, group_name,
                     Field(group_config, "path", "/")) >>

\* Lines 42-51: one attachment per AWS managed policy, named by its index.
DeclareAwsPolicies(group_name, group_config) ==
    LET aws_managed_policies == Field(group_config, "managed_policy_arns", << >>)
    IN [idx \in 1..Len(aws_managed_policies) |->
          GroupResource("GroupPolicyAttachment",
                        << "group", group_name, "aws-policy", idx - 1 >>,
                        group_name, aws_managed_policies[idx])]

\* Lines 58-64: the ARN of a customer managed policy entry.
PolicyArnOf(policy_info) ==
    IF IsMapping(policy_info) THEN Field(policy_info, "policy_arn", NoArn)
    ELSE policy_info.value

\* Lines 56-72: one attachment per customer managed policy that has an ARN,
\* named by its index in the list; an entry without one is passed over.
DeclareCustomerPolicies(group_name, group_config) ==
    LET customer_managed_policies == Field(group_config, "customer_managed_policies", << >>)
        all == [idx \in 1..Len(customer_managed_policies) |->
                  GroupResource("GroupPolicyAttachment",
                                << "group", group_name, "customer-policy", idx - 1 >>,
                                group_name, PolicyArnOf(customer_managed_policies[idx]))]
    IN SelectSeq(all, LAMBDA r : r.prop # NoArn)

\* Lines 57-74: what the program logs about the customer managed policies
\* of a group: line 74, once for each entry that has an ARN. Nothing is
\* logged about an entry without one.
LogCustomerPolicies(group_name, group_config) ==
    LET customer_managed_policies == Field(group_config, "customer_managed_policies", << >>)
    IN {[about |-> << "group", group_name, "customer-policy", idx - 1 >>,
         text |-> "Attached customer managed policy"] :
            idx \in {i \in 1..Len(customer_managed_policies) :
                        PolicyArnOf(customer_managed_policies[i]) # NoArn}}

\* Lines 77-85: one GroupPolicy per inline policy, named by the policy.
DeclareInlinePolicies(group_name, group_config) ==
    LET inline_policies == Field(group_config, "inline_policies", << >>)
    IN [i \in 1..Len(inline_policies) |->
          GroupResource("GroupPolicy",
                        << "group", group_name, "inline", inline_policies[i].name >>,
                        group_name, inline_policies[i].name)]

\* Lines 94-95: the exported policy count of a group.
TotalPolicies(group_config) ==
    Len(Field(group_config, "managed_policy_arns", << >>))
        + Len(Field(group_config, "customer_managed_policies", << >>))
        + Len(Field(group_config, "inline_policies", << >>))

\* Lines 26-95: the loop over imported_groups.items(), from entry i on, with
\* the resources in the order they are declared. group_config.get raises on
\* an entry that is not a mapping, which ends the run.
RECURSIVE GroupLoop(_, _, _)
GroupLoop(cfg, i, acc) ==
    IF i > Len(cfg) THEN acc
    ELSE IF ~IsMapping(cfg[i].obj) THEN [acc EXCEPT !.raised = TRUE]
    ELSE GroupLoop(cfg, i + 1,
            [acc EXCEPT !.declared = @ \o DeclareGroup(cfg[i].name, cfg[i].obj)
                                       \o DeclareAwsPolicies(cfg[i].name, cfg[i].obj)
                                       \o DeclareCustomerPolicies(cfg[i].name, cfg[i].obj)
                                       \o DeclareInlinePolicies(cfg[i].name, cfg[i].obj),
                        !.log = @ \cup LogCustomerPolicies(cfg[i].name, cfg[i].obj),
                        !.policy_count = [@ EXCEPT ![cfg[i].name] = TotalPolicies(cfg[i].obj)]])

\* GroupLoop in the reverse of the mapping's order (faulty variant).
GroupsStackProgramReversed(cfg) ==
    LET rev == [i \in 1..Len(cfg) |-> cfg[Len(cfg) + 1 - i]]
        r == GroupLoop(rev, 1, [declared |-> << >>, raised |-> FALSE, log |-> {},
                                policy_count |-> [g \in Groups |-> 0]])
    IN [ran |-> TRUE, raised |-> r.raised, declared |-> r.declared,
        resources |-> Range(r.declared), policy_count |-> r.policy_count,
        total_groups_managed |-> Len(cfg), log |-> r.log]

\* Lines 26-99: the resources and exports of one run of the program.
GroupsStackProgram(cfg) ==
    LET r == GroupLoop(cfg, 1, [declared |-> << >>, raised |-> FALSE, log |-> {},
                                policy_count |-> [g \in Groups |-> 0]])
    IN [ran |-> TRUE, raised |-> r.raised, declared |-> r.declared,
        resources |-> Range(r.declared), policy_count |-> r.policy_count,
        total_groups_managed |-> Len(cfg), log |-> r.log]

NoGroupProgram ==
    [ran |-> FALSE, raised |-> FALSE, declared |-> << >>, resources |-> {},
     policy_count |-> [g \in Groups |-> 0], total_groups_managed |-> 0, log |-> {}]

(* The engine on the groups stack: what `pulumi up` does with the          *)
(* resources declared at lines 32-85.                                      *)

GNames(rs) == {r.name : r \in rs}
GByName(rs, n) == CHOOSE r \in rs : r.name = n

\* Declared and not tracked: created (the group: adopted).
GroupPlanCreates(prog, st) == {r \in prog.resources : r.name \notin GNames(st)}
\* Declared and tracked with another policy: replaced.
GroupPlanReplaces(prog, st) ==
    {r \in prog.resources : r.name \in GNames(st) /\ GByName(st, r.name) # r}
\* Tracked and not declared: deleted (the policy: detached from the group).
GroupPlanDeletes(prog, st) == {r \in st : r.name \notin GNames(prog.resources)}

\* import_=group_name adopts the group only when it exists.
GroupAdopted(r) == r.group \in iamGroups

\* The steps that succeed: a group that is adopted or tracked already, and
\* what depends_on such a group.
GroupStepsDone(prog, st) ==
    LET groupsOk == {r.group : r \in {x \in prog.resources : x.kind = "Group"
                                        /\ (x.name \in GNames(st) \/ GroupAdopted(x))}}
    IN IF prog.raised THEN {}
       ELSE {r \in GroupPlanCreates(prog, st) \cup GroupPlanReplaces(prog, st) :
                r.group \in groupsOk}

GroupUpFailed(prog, st) ==
    prog.raised \/ GroupStepsDone(prog, st) # GroupPlanCreates(prog, st) \cup GroupPlanReplaces(prog, st)

\* What leaves the state: the old side of each replacement, and, when no
\* step failed, what is no longer declared.
GroupGone(prog, st) ==
    {GByName(st, r.name) : r \in GroupStepsDone(prog, st) \cap GroupPlanReplaces(prog, st)}
        \cup (IF GroupUpFailed(prog, st) THEN {} ELSE GroupPlanDeletes(prog, st))

Attaches(rs, g) == {r.prop : r \in {x \in rs : x.kind = "GroupPolicyAttachment" /\ x.group = g}}
Puts(rs, g) == {r.prop : r \in {x \in rs : x.kind = "GroupPolicy" /\ x.group = g}}

\* `pulumi preview` / the first half of `pulumi up` on the groups stack.
GroupsPreview ==
    /\ gpc = "idle"
    /\ StartOnGroups
    /\ groupProgram' = GroupsStackProgram(imported_groups)
    /\ gpc' = "planned"
    /\ UNCHANGED << urest, pvars, host, iamGroups, iamAttached, iamInline, imported_groups,
                    groupState, fetchRun >>

\* The second half of `pulumi up`: attach and put first, detach and delete last.
GroupsUp ==
    LET done == GroupStepsDone(groupProgram, groupState)
        gone == GroupGone(groupProgram, groupState)
    IN /\ gpc = "planned"
       /\ iamAttached' = [g \in Groups |->
                            (iamAttached[g] \cup Attaches(done, g)) \ Attaches(gone, g)]
       /\ iamInline' = [g \in Groups |->
                            (iamInline[g] \cup Puts(done, g)) \ Puts(gone, g)]
       /\ groupState' = (groupState \ gone) \cup done
       /\ groupProgram' = NoGroupProgram
       /\ gpc' = "idle"
       /\ fetchRun' = NoFetchRun
       /\ UNCHANGED << uvars, pvars, host, iamGroups, imported_groups >>

----------------------------------------------------------------------------
(* The stack programs from the raw config value on: the parse at the top  *)
(* of user_stack/__main__.py and groups_stack/__main__.py, and the program *)
(* of pulumi-aws-iam/__main__.py, which reads no config.                   *)

\* The raw value of a config key: not set, text that is not JSON, JSON that
\* is a list, or JSON that is a mapping with the entries in their order.
UnsetValue == [kind |-> "unset", entries |-> << >>]
InvalidJson == [kind |-> "invalid", entries |-> << >>]
JsonList == [kind |-> "list", entries |-> << >>]
JsonMapping(entries) == [kind |-> "mapping", entries |-> entries]

\* What one run of a program leaves: whether it raised and where, the
\* resources it declared in order, what it logged, and the
\* group_<name>_policy_count values it exported (groups stack only).
RunResult(aborted, cause, declared, log, policy_count) ==
    [aborted |-> aborted, cause |-> cause, declared |-> declared, log |-> log,
     policy_count |-> policy_count]

\* No group_<name>_policy_count export.
NoPolicyCount == [g \in Groups |-> 0]

\* user_stack/__main__.py lines 8-93. json.loads raises on text that is not
\* JSON; on a list users_dict.keys() raises inside the try of lines 15-30 and
\* users_dict.items() raises at line 32; an entry that raises ends the run.
UserStackMain(raw, existing) ==
    CASE raw.kind = "invalid" -> RunResult(TRUE, "top-level", << >>, {}, NoPolicyCount)
      [] raw.kind = "list" -> RunResult(TRUE, "top-level", << >>, {}, NoPolicyCount)
      [] OTHER ->
            LET r == UserStackProgram(raw.entries, existing)
            IN RunResult(r.raised, IF r.raised THEN "entry" ELSE "", r.resources, {}, NoPolicyCount)

\* groups_stack/__main__.py lines 9-99. A JSONDecodeError is caught and the
\* program goes on with an empty mapping; on a list imported_groups.items()
\* raises at line 26; an entry that raises ends the run.
GroupsStackMain(raw) ==
    CASE raw.kind = "invalid" ->
            RunResult(FALSE, "", GroupsStackProgram(<< >>).declared, {}, NoPolicyCount)
      [] raw.kind = "list" -> RunResult(TRUE, "top-level", << >>, {}, NoPolicyCount)
      [] OTHER ->
            LET r == GroupsStackProgram(raw.entries)
            IN RunResult(r.raised, IF r.raised THEN "entry" ELSE "", r.declared, r.log,
                         r.policy_count)

\* pulumi-aws-iam/__main__.py lines 6-47: the roles, in the order of the
\* mapping.
RoleOrder ==
    << "Beneficiary", "Volunteer", "Steward", "Admin", "SuperAdmin", "CharityOrg" >>

\* pulumi-aws-iam/__main__.py lines 50-90: a group and its inline policy
\* for each role, then the test user and its membership.
RolesProgram ==
    LET RECURSIVE RoleLoop(_)
        RoleLoop(i) ==
            IF i > Len(RoleOrder) THEN << >>
            ELSE << GroupResource("Group", << RoleOrder[i] >>, RoleOrder[i], "/system/"),
                    GroupResource("GroupPolicy", << RoleOrder[i], "policy" >>,
                                  RoleOrder[i], "policy_doc") >>
                 \o RoleLoop(i + 1)
    IN RunResult(FALSE, "",
          RoleLoop(1)
          \o << GroupResource("User", << "testUser" >>, "", "/system/"),
                GroupResource("UserGroupMembership", << "testUserMembership" >>,
                              "Beneficiary", "testUser") >>,
          {}, NoPolicyCount)

\* Independent runs of one program on the same input.
MaxRuns == 2

NoRuns == [user |-> << >>, groups |-> << >>, roles |-> << >>]

\* `pulumi preview` on the user stack with raw_config.users as its config.
RunUserStack ==
    /\ Len(runs.user) < MaxRuns
    /\ runs' = [runs EXCEPT !.user = Append(@, UserStackMain(raw_config.users, awsUsers))]
    /\ UNCHANGED << uvars, gvars, raw_config, host >>

\* `pulumi preview` on the groups stack with raw_config.imported_groups.
RunGroupsStack ==
    /\ Len(runs.groups) < MaxRuns
    /\ runs' = [runs EXCEPT !.groups = Append(@, GroupsStackMain(raw_config.imported_groups))]
    /\ UNCHANGED << uvars, gvars, raw_config, host >>

\* `pulumi preview` on the pulumi-aws-iam project.
RunRolesStack ==
    /\ Len(runs.roles) < MaxRuns
    /\ runs' = [runs EXCEPT !.roles = Append(@, RolesProgram)]
    /\ UNCHANGED << uvars, gvars, raw_config, host >>

\* Entries of a hand-written users mapping: the ones above, a flag in upper
\* case and a flag that is null.
RawUserObjs ==
    InitObjs \cup {DictObj(<< "A", "B" >>, "YES", "no", "/"),
                   DictObj(<< "A" >>, NullValue, "no", "/")}

\* Mappings of alice and bob, in either order, bob plain.
RawUserMappings ==
    LET a(o) == << [name |-> "alice", obj |-> o] >>
        b == << [name |-> "bob", obj |-> DictObj(<< "B" >>, "no", "no", "/")] >>
    IN {<< >>, b} \cup {a(o) : o \in RawUserObjs}
        \cup {a(o) \o b : o \in RawUserObjs} \cup {b \o a(o) : o \in RawUserObjs}

\* Entries of a hand-written imported_groups mapping: a full record, one
\* with a customer managed policy that has no ARN and one given as a bare
\* string, one with only a path, and a bare string.
RawGroupObjs ==
    {[path |-> "/", managed_policy_arns |-> << << "aws", "ReadOnlyAccess" >> >>,
      customer_managed_policies |-> << CustomerPolicy(<< "123456789012", "OpsPolicy" >>) >>,
      inline_policies |-> << [name |-> "inline-a",
                              document |-> PolicyDocument("A", "inline-a")] >>],
     [path |-> "/", managed_policy_arns |-> << >>,
      customer_managed_policies |->
          << [policy_name |-> "NoArnPolicy"], Bare(<< "123456789012", "OpsPolicy" >>) >>,
      inline_policies |-> << >>],
     [path |-> "/system/"],
     Bare("Admins")}

RawGroupMappings ==
    LET a(o) == << [name |-> "A", obj |-> o] >>
        b == << [name |-> "B", obj |-> [path |-> "/system/",
                   managed_policy_arns |-> << << "aws", "PowerUserAccess" >> >>] ] >>
    IN {<< >>, b} \cup {a(o) : o \in RawGroupObjs}
        \cup {a(o) \o b : o \in RawGroupObjs} \cup {b \o a(o) : o \in RawGroupObjs}

RawValues(mappings) ==
    {UnsetValue, InvalidJson, JsonList} \cup {JsonMapping(m) : m \in mappings}

\* Any raw config, alice in IAM or not, and no run yet.
ProgramsInit ==
    /\ raw_config \in [users : RawValues(RawUserMappings),
                       imported_groups : RawValues(RawGroupMappings)]
    /\ runs = NoRuns
    /\ awsUsers \in {{}, {"alice"}}

ProgramsNext == RunUserStack \/ RunGroupsStack \/ RunRolesStack

----------------------------------------------------------------------------
(* manage_users.py: show_user_credentials                                  *)

\* The secret outputs the stack holds: the ones exported for the access
\* key and the login profile the engine tracks.
StackSecrets(st) ==
    {Export(r.user, "secretAccessKey", "created") : r \in {x \in st : x.kind = "AccessKey"}}
    \cup
    {Export(r.user, "generatedPassword", "created") :
        r \in {x \in st : x.kind = "UserLoginProfile"}}

\* Lines 35-36: the security configuration.
CREDENTIAL_VIEW_PASSWORD == "ChangeMe!123"
MAX_PASSWORD_ATTEMPTS == 3

\* Lines 626-645, with every password accepted (faulty variant).
VerifyAnyPassword(entered, attempt) == attempt + 1 <= Len(entered)

\* Lines 620-650: the loop over range(MAX_PASSWORD_ATTEMPTS), from attempt
\* on, with the passwords the operator types one after the other. getpass
\* raises when the input ends or is interrupted, which is answered False.
RECURSIVE VerifyCredentialAccess(_, _)
VerifyCredentialAccess(entered, attempt) ==
    IF attempt >= MAX_PASSWORD_ATTEMPTS THEN FALSE
    ELSE IF attempt + 1 > Len(entered) THEN FALSE
    ELSE IF entered[attempt + 1] = CREDENTIAL_VIEW_PASSWORD THEN TRUE
    ELSE VerifyCredentialAccess(entered, attempt + 1)

\* Lines 29-30: the stack directories, and os.chdir to one of them.
UserStackPath == "user_stack"
GroupsStackPath == "groups_stack"
Chdir(h, path) == [h EXCEPT !.cwd = path]

\* Faulty variant: the working directory is left where it is.
StayThere(h, original_dir) == h

\* os.chdir(original_dir), as in lines 419, 424, 454, 477, 482, 670, 749,
\* 761, 936, 976 and 989.
ChdirBack(h, original_dir) == [h EXCEPT !.cwd = original_dir]

\* What can go wrong in a menu entry: nothing, the chdir to the stack
\* directory, the sub-command, a missing Pulumi.yaml, the config set.
Faults == {"none", "chdir", "command"}

\* The working directory a menu entry ends in when it saved original_dir
\* and, unless that raised, went to `path`: the chdir back of the normal
\* end, of the early return, of the handler or of the finally clause.
BackFrom(h, path, fault) ==
    IF fault = "chdir" THEN ChdirBack(h, h.cwd)
    ELSE ChdirBack(Chdir(h, path), h.cwd)

\* The directory the sub-commands of a menu entry ran in.
RanIn(path, went, fault) == IF went /\ fault # "chdir" THEN path ELSE ""

\* Lines 652-766: after the password check, in the user stack directory,
\* the secrets of the user are read from the stack with --show-secrets and
\* printed; a name that is not valid is refused at lines 667-672.
ShowUserCredentials(username, entered) ==
    LET granted == VerifyCredentialAccess(entered, 0)
    IN /\ pc = "idle"
       /\ Start
       /\ out' = [NoOut EXCEPT !.op = "show", !.user = username, !.entered = entered,
                               !.granted = granted,
                               !.shown = IF granted /\ ValidateUsername(username)
                                         THEN {e \in StackSecrets(pulumiState) :
                                                    e.user = username}
                                         ELSE {},
                               !.menu = "show_user_credentials",
                               !.ran_in = RanIn(UserStackPath, granted, "none")]
       /\ host' = IF granted THEN BackFrom(host, UserStackPath, "none") ELSE host
       /\ importRun' = NoImportRun
       /\ UNCHANGED << gvars, pvars, aws, users_config, pulumiState, program, pc, lastApplied,
                       operatorRemoved, edit >>

\* Lines 950-993: run_script with sync_users.py, or with a script that is
\* not there. The finally clause of lines 986-991 goes back on every path.
RunScript(script_name, fault) ==
    LET exists == script_name = "sync_users.py"
        started == exists /\ fault = "none"
    IN /\ IF started THEN SyncUsersRun("run_script", UserStackPath)
          ELSE /\ pc = "idle"
               /\ Start
               /\ out' = [NoOut EXCEPT !.menu = "run_script",
                                       !.errors = {ErrorOf(script_name, fault)},
                                       !.ran_in = RanIn(UserStackPath, exists, fault)]
               /\ importRun' = NoImportRun
               /\ lastApplied' = FALSE
               /\ UNCHANGED << gvars, pvars, aws, users_config, pulumiState, program, pc,
                               operatorRemoved, edit >>
       /\ host' = IF exists THEN BackFrom(host, UserStackPath, fault)
                  ELSE ChdirBack(host, host.cwd)

\* Lines 391-430: refresh_pulumi_state. `pulumi refresh --yes` drops from
\* the state what IAM no longer holds.
RefreshPulumiState(response, fault) ==
    LET proceed == GetYesNoInput(response, "yes")
        refreshed == proceed /\ fault = "none"
    IN /\ pc = "idle"
       /\ Start
       /\ pulumiState' = IF refreshed THEN {r \in pulumiState : r.user \in awsUsers}
                         ELSE pulumiState
       /\ host' = IF proceed THEN BackFrom(host, UserStackPath, fault) ELSE host
       /\ out' = [NoOut EXCEPT !.menu = "refresh_pulumi_state",
                               !.errors = IF proceed /\ fault # "none"
                                          THEN {ErrorOf("", fault)} ELSE {},
                               !.ran_in = RanIn(UserStackPath, proceed, fault)]
       /\ importRun' = NoImportRun
       /\ lastApplied' = FALSE
       /\ UNCHANGED << gvars, pvars, aws, users_config, program, pc, operatorRemoved, edit >>

\* Lines 432-486: deploy_pending_changes. A preview that fails ends the
\* entry at lines 451-456; `pulumi up --yes` runs when the preview shows
\* changes and the operator agrees.
DeployPendingChanges(response, fault) ==
    LET prog == UserStackProgram(users_config, awsUsers)
        previewed == fault # "chdir"
        preview_failed == previewed /\ (prog.raised \/ fault = "command")
        no_changes == /\ \A r \in Range(prog.resources) : OpOf(pulumiState, r) = "same"
                      /\ PlanDeletes(prog, pulumiState) = {}
        applies == /\ previewed /\ ~preview_failed /\ ~no_changes
                   /\ GetYesNoInput(response, "yes")
        after(u) == IF applies THEN ViewAfterUp(prog, u)
                    ELSE View(u, awsUsers, awsKeys, awsLogin, awsGroups, awsPath, pulumiState)
    IN /\ pc = "idle"
       /\ Start
       /\ awsUsers' = {u \in Users : after(u).exists}
       /\ awsKeys' = [u \in Users |-> after(u).keys]
       /\ awsLogin' = [u \in Users |-> after(u).login]
       /\ awsGroups' = [u \in Users |-> after(u).groups]
       /\ awsPath' = [u \in Users |-> after(u).path]
       /\ pulumiState' = IF applies THEN UNION {after(u).st : u \in Users} ELSE pulumiState
       /\ lastApplied' = applies
       /\ host' = BackFrom(host, UserStackPath, fault)
       /\ out' = [NoOut EXCEPT !.menu = "deploy_pending_changes",
                               !.errors = IF preview_failed \/ fault = "chdir"
                                          THEN {ErrorOf("", fault)} ELSE {},
                               !.written = applies,
                               !.ran_in = RanIn(UserStackPath, TRUE, fault)]
       /\ importRun' = NoImportRun
       /\ UNCHANGED << gvars, pvars, users_config, program, pc, operatorRemoved, edit >>

\* Lines 768-948: import_groups of manage_users. The groups are fetched as
\* in groups_stack/import_groups.py; lines 896-936 save them in the groups
\* stack directory and run `pulumi up --yes` there on request, and the
\* finally clause of lines 934-936 goes back, also from the return of
\* line 922.
ManageImportGroups(proceed, save_confirm, deploy, fault) ==
    LET groups_data == FetchAllGroups({}, {}, 0)
        saves == /\ GetYesNoInput(proceed, "no") /\ groups_data # << >>
                 /\ GetYesNoInput(save_confirm, "yes")
        went == saves /\ fault # "no Pulumi.yaml"
        saved == went /\ fault = "none"
        deploys == saved /\ GetYesNoInput(deploy, "yes")
        prog == GroupsStackProgram(groups_data)
        done == GroupStepsDone(prog, groupState)
        gone == GroupGone(prog, groupState)
    IN /\ pc = "idle"
       /\ gpc = "idle"
       /\ Start
       /\ imported_groups' = IF saved THEN groups_data ELSE imported_groups
       /\ iamAttached' = IF deploys
                         THEN [g \in Groups |->
                                 (iamAttached[g] \cup Attaches(done, g)) \ Attaches(gone, g)]
                         ELSE iamAttached
       /\ iamInline' = IF deploys
                       THEN [g \in Groups |->
                               (iamInline[g] \cup Puts(done, g)) \ Puts(gone, g)]
                       ELSE iamInline
       /\ groupState' = IF deploys THEN (groupState \ gone) \cup done ELSE groupState
       /\ fetchRun' = IF saved /\ ~deploys
                      THEN [ran |-> TRUE, failedAttached |-> {}, failedInline |-> {}]
                      ELSE NoFetchRun
       /\ host' = IF went THEN BackFrom(host, GroupsStackPath, fault) ELSE host
       /\ out' = [NoOut EXCEPT !.menu = "import_groups",
                               !.errors = IF saves /\ fault # "none"
                                          THEN {ErrorOf("", fault)} ELSE {},
                               !.written = saved,
                               !.ran_in = RanIn(GroupsStackPath, went, fault)]
       /\ importRun' = NoImportRun
       /\ lastApplied' = FALSE
       /\ UNCHANGED << pvars, aws, users_config, pulumiState, program, pc, operatorRemoved,
                       edit, iamGroups, groupProgram, gpc >>

----------------------------------------------------------------------------
(* The specifications.                                                 *)

\* The attached policies group A starts with: none, one AWS managed, one
\* customer managed, one of each, or all three.
InitAttached ==
    {{}, {<< "aws", "ReadOnlyAccess" >>}, {<< "123456789012", "OpsPolicy" >>},
     {<< "aws", "ReadOnlyAccess" >>, << "123456789012", "OpsPolicy" >>}, Policies}

\* IAM groups before the first operation: group A with the attached policies
\* above and none, the first or both inline policies, group B with every
\* attached policy and one inline policy; nothing imported.
GroupsInit ==
    /\ iamGroups \in SUBSET Groups
    /\ iamAttached \in [Groups -> SUBSET Policies]
    /\ iamInline \in [Groups -> SUBSET InlineNames]
    /\ \A g \in Groups \ iamGroups : iamAttached[g] = {} /\ iamInline[g] = {}
    /\ iamAttached["A"] \in InitAttached
    /\ iamInline["A"] # {"inline-b"}
    /\ "B" \in iamGroups => iamAttached["B"] = Policies /\ iamInline["B"] = {"inline-a"}
    /\ imported_groups = << >>
    /\ groupState = {}
    /\ groupProgram = NoGroupProgram
    /\ gpc = "idle"
    /\ fetchRun = NoFetchRun

\* The groups side at rest, for the specification of the user side.
GroupsQuiet ==
    /\ iamGroups = Groups
    /\ iamAttached = [g \in Groups |-> {}]
    /\ iamInline = [g \in Groups |-> {}]
    /\ imported_groups = << >>
    /\ groupState = {}
    /\ groupProgram = NoGroupProgram
    /\ gpc = "idle"
    /\ fetchRun = NoFetchRun

\* The user side at rest, but for the users IAM holds.
UsersRestQuiet ==
    /\ awsKeys = [u \in Users |-> 0]
    /\ awsLogin = [u \in Users |-> FALSE]
    /\ awsGroups = [u \in Users |-> {}]
    /\ awsPath = [u \in Users |-> "/"]
    /\ users_config = << >>
    /\ pulumiState = {}
    /\ program = NoProgram
    /\ pc = "idle"
    /\ lastApplied = FALSE
    /\ operatorRemoved = {}
    /\ importRun = NoImportRun
    /\ edit = NoEdit
    /\ out = NoOut
    /\ ops = 0

\* The user side at rest, for the specification of the groups side.
UsersQuiet == awsUsers = {} /\ UsersRestQuiet

\* The program file as shipped, no backup, the project root as the working
\* directory.
HostQuiet == host = [main_py |-> UserStackText, backup |-> NoFile, cwd |-> "project"]

\* No program has been run on a raw config value.
ProgramsQuiet ==
    /\ raw_config = [users |-> UnsetValue, imported_groups |-> UnsetValue]
    /\ runs = NoRuns

GroupsSideInit == GroupsInit /\ UsersQuiet /\ ProgramsQuiet /\ HostQuiet
UserSideInit == UserInit /\ GroupsQuiet /\ ProgramsQuiet /\ HostQuiet

GroupsNext ==
    \/ \E proceed \in Flags, save_confirm \in Flags,
          failedAttached \in SUBSET iamGroups, failedInline \in SUBSET iamGroups,
          upto \in 0..MaxFailAt :
            ImportGroups(proceed, save_confirm, failedAttached, failedInline, upto)
    \/ GroupsPreview
    \/ GroupsUp

Spec == UserSideInit /\ [][UserNext]_vars

SpecGroups == GroupsSideInit /\ [][GroupsNext]_vars

\* The scripts that read IAM and the stack (import_user, sync_users, and the
\* access-key and credentials entries of manage_users) together with
\* `pulumi up`: alice and bob, each in IAM or not, alice with any number of
\* keys, both with or without a login profile and in no group or in A.
ReadSideInit ==
    /\ awsUsers \in SUBSET Users
    /\ awsKeys \in [Users -> 0..KeyLimit]
    /\ awsLogin \in [Users -> BOOLEAN]
    /\ awsGroups \in [Users -> {{}, {"A"}}]
    /\ awsPath = [u \in Users |-> "/"]
    /\ \A u \in Users \ awsUsers :
          awsKeys[u] = 0 /\ ~awsLogin[u] /\ awsGroups[u] = {}
    /\ awsKeys["bob"] = 0
    /\ users_config \in InitConfigs
    /\ pulumiState = {}
    /\ program = NoProgram
    /\ pc = "idle"
    /\ lastApplied = FALSE
    /\ operatorRemoved = {}
    /\ importRun = NoImportRun
    /\ edit = NoEdit
    /\ out = NoOut
    /\ ops = 0
    /\ GroupsQuiet
    /\ ProgramsQuiet
    /\ HostQuiet

\* What the operator types at the password prompts: nothing, the password
\* at the first or third prompt, three wrong entries, and three wrong
\* entries followed by the password.
PasswordInputs ==
    LET ok == CREDENTIAL_VIEW_PASSWORD
    IN {<< >>, << ok >>, << "guess", "", ok >>, << "guess", "guess", "guess" >>,
        << "guess", "", "changeme!123", ok >>}

\* What the operator answers to a yes/no prompt, and the key numbers
\* entered.
YesNoAnswers == {"yes", "no", ""}
KeyNumbers == 0..(KeyLimit + 1)

ReadNext ==
    \/ Preview
    \/ Apply
    \/ \E failing \in SUBSET awsUsers : ImportUserAborts(failing)
    \/ \E exportOk \in BOOLEAN, proceed \in Flags :
          \* the outcome of the imports matters only when they are issued
          \E okUsers \in SUBSET (IF proceed = "yes" THEN awsUsers ELSE {}) :
            \E okMemberships \in SUBSET okUsers :
              ImportUser(exportOk, proceed, okUsers, okMemberships)
    \/ SyncUsers
    \/ SyncUsersAborts
    \/ \E username \in Users, entered \in {<< >>, << CREDENTIAL_VIEW_PASSWORD >>} :
          ShowUserCredentials(username, entered)
    \/ \E failing \in {{}} \cup {{u} : u \in Users}, user_idx \in 0..1 :
          \* a key is asked for once a user is selected, the confirmation once
          \* a key is
          \E key_idx \in 0..user_idx :
            \E confirm \in (IF key_idx = 0 THEN {"no"} ELSE Flags) :
              FixUserAccessKeys(failing, user_idx, key_idx, confirm)

SpecRead == ReadSideInit /\ [][ReadNext]_vars

\* The prompts of the key and credential entries (show_user_credentials and
\* fix_user_access_keys of manage_users, check_access_key_limit of
\* create_user) together with `pulumi up`, which puts the secrets in the
\* stack: alice and bob, each in IAM or not, alice with any number of keys,
\* nobody with a login profile or in a group.
PromptSideInit ==
    /\ awsUsers \in SUBSET Users
    /\ awsKeys \in [Users -> 0..KeyLimit]
    /\ awsLogin = [u \in Users |-> FALSE]
    /\ awsGroups = [u \in Users |-> {}]
    /\ awsPath = [u \in Users |-> "/"]
    /\ \A u \in Users \ awsUsers : awsKeys[u] = 0
    /\ awsKeys["bob"] = 0
    /\ users_config \in InitConfigs
    /\ pulumiState = {}
    /\ program = NoProgram
    /\ pc = "idle"
    /\ lastApplied = FALSE
    /\ operatorRemoved = {}
    /\ importRun = NoImportRun
    /\ edit = NoEdit
    /\ out = NoOut
    /\ ops = 0
    /\ GroupsQuiet
    /\ ProgramsQuiet
    /\ HostQuiet

PromptNext ==
    \/ Preview
    \/ Apply
    \/ \E username \in Users, entered \in PasswordInputs :
          ShowUserCredentials(username, entered)
    \/ \E failing \in {{}} \cup {{u} : u \in Users}, user_idx \in 0..1 :
          \* a key is asked for once a user is selected, the confirmation once
          \* a key is
          \E key_idx \in 0..user_idx :
            \E confirm \in (IF key_idx = 0 THEN {"no"} ELSE YesNoAnswers) :
              FixUserAccessKeys(failing, user_idx, key_idx, confirm)
    \/ \E username \in Users, delete_key \in Flags :
          \E selection \in (IF delete_key = "yes" THEN KeyNumbers ELSE {0}) :
            CheckAccessKeyLimit(username, delete_key, selection)

SpecPrompts == PromptSideInit /\ [][PromptNext]_vars

\* create_user and edit_user on a config that holds alice, who is in IAM
\* or not, in group A or in none.
EditSideInit ==
    /\ users_config \in {<< [name |-> "alice", obj |-> DictObj(g, "no", "no", "/")] >> :
                            g \in {<< >>, << "A" >>}}
    /\ awsUsers \in {{}, {"alice"}}
    /\ awsGroups \in {[u \in Users |-> IF u = "alice" THEN g ELSE {}] : g \in {{}, {"A"}}}
    /\ (awsUsers = {} => awsGroups["alice"] = {})
    /\ awsKeys = [u \in Users |-> 0]
    /\ awsLogin = [u \in Users |-> FALSE]
    /\ awsPath = [u \in Users |-> "/"]
    /\ pulumiState = {}
    /\ program = NoProgram
    /\ pc = "idle"
    /\ lastApplied = FALSE
    /\ operatorRemoved = {}
    /\ importRun = NoImportRun
    /\ edit = NoEdit
    /\ out = NoOut
    /\ ops = 0
    /\ GroupsQuiet
    /\ ProgramsQuiet
    /\ HostQuiet

EditNext ==
    \/ /\ pc = "idle" /\ Len(users_config) < MaxConfigLen
       /\ \E name_input \in NameInputs, items \in ItemLists, create_key \in Flags,
             has_console_access \in Flags, custom_path \in PathInputs, deploy \in Flags :
               CreateUser(name_input, items, create_key, has_console_access, custom_path,
                          deploy)
    \/ \E number \in 0..(MaxConfigLen + 1), sync_choice \in Flags :
            EditSelect(number, sync_choice)
    \/ \E number \in 0..(Cardinality(Groups) + 1) : EditAdd(number)
    \/ \E number \in 0..(Cardinality(Groups) + 1) : EditRemove(number)
    \/ \E deploy \in Flags : EditDone(deploy)

SpecEdit == EditSideInit /\ [][EditNext]_vars

\* The scripts that add and remove entries of the users mapping
\* (create_user, create_users, delete_user) together with `pulumi up`, on a
\* hand-written mapping, with alice in IAM or not, without keys, login
\* profile or groups.
ConfigSideInit ==
    /\ users_config \in InitConfigs
    /\ awsUsers \in {{}, {"alice"}}
    /\ awsGroups = [u \in Users |-> {}]
    /\ awsKeys = [u \in Users |-> 0]
    /\ awsLogin = [u \in Users |-> FALSE]
    /\ awsPath = [u \in Users |-> "/"]
    /\ pulumiState = {}
    /\ program = NoProgram
    /\ pc = "idle"
    /\ lastApplied = FALSE
    /\ operatorRemoved = {}
    /\ importRun = NoImportRun
    /\ edit = NoEdit
    /\ out = NoOut
    /\ ops = 0
    /\ GroupsQuiet
    /\ ProgramsQuiet
    /\ HostQuiet

\* The new entry is asked for without a key or console access and at the
\* default path, by create_user without groups, by create_users without
\* groups or in group A.
ConfigNext ==
    \/ Preview
    \/ Apply
    \/ /\ pc = "idle" /\ Len(users_config) < MaxConfigLen
       /\ \E name_input \in NameInputs, deploy \in Flags :
               CreateUser(name_input, << >>, "no", "no", "", deploy)
    \/ /\ pc = "idle" /\ Len(users_config) < MaxConfigLen
       /\ \E name_input \in NameInputs, parts \in {<< "" >>, << " A ", " " >>} :
            \E deploy \in Flags :
               CreateUsers(name_input, parts, "no", "no", deploy)
    \/ \E name_input \in NameInputs : DeleteUser(name_input)

SpecConfig == ConfigSideInit /\ [][ConfigNext]_vars

ProgramsSideInit == ProgramsInit /\ UsersRestQuiet /\ GroupsQuiet /\ HostQuiet

SpecPrograms == ProgramsSideInit /\ [][ProgramsNext]_vars

----------------------------------------------------------------------------
(* Properties of the groups side.                                          *)

GroupRecord(g) == Value(imported_groups, g)
RecordedAttached(g) ==
    Range(GroupRecord(g).managed_policy_arns)
        \cup {c.policy_arn : c \in Range(GroupRecord(g).customer_managed_policies)}
RecordedInline(g) == {p.name : p \in Range(GroupRecord(g).inline_policies)}

\* The record of g holds exactly what IAM holds for g, every attached policy
\* once and in one list only.
RecordComplete(g) ==
    /\ HasKey(imported_groups, g)
    /\ RecordedAttached(g) = iamAttached[g]
    /\ RecordedInline(g) = iamInline[g]
    /\ Len(GroupRecord(g).managed_policy_arns)
          + Len(GroupRecord(g).customer_managed_policies) = Cardinality(iamAttached[g])

\* The program declares one attachment for each policy of the record of g.
OneAttachmentPerPolicy(g) ==
    /\ Attaches(groupProgram.resources, g) = RecordedAttached(g)
    /\ Cardinality({r \in groupProgram.resources :
                        r.kind = "GroupPolicyAttachment" /\ r.group = g})
          = Cardinality(RecordedAttached(g))

\* C4 (non-destructive import of groups): after a group import, the record
\* of every remote group holds exactly its attached policies, each in one
\* list, and exactly its inline policies; the groups stack program run on
\* it declares one attachment per recorded policy and the plan deletes or
\* detaches nothing.
C4_NonDestructiveGroupImport ==
    fetchRun.ran =>
        /\ \A g \in iamGroups : RecordComplete(g)
        /\ gpc = "planned" =>
              /\ \A g \in iamGroups : OneAttachmentPerPolicy(g)
              /\ GroupPlanDeletes(groupProgram, groupState) = {}

\* The record a read without any failure gives for a group that has no
\* attached policies / no inline policies.
RecordedAsNoAttached(g) ==
    GroupRecord(g).managed_policy_arns = << >>
        /\ GroupRecord(g).customer_managed_policies = << >>
RecordedAsNoInline(g) == GroupRecord(g).inline_policies = << >>

\* C9 (partial read tolerance): after a group import in which a policy
\* listing failed for some groups, every other group is recorded in full,
\* and a group whose listing failed is not recorded as a group that has no
\* policies of that kind.
C9_PartialReadTolerance ==
    fetchRun.ran =>
        \A g \in iamGroups :
            /\ g \notin fetchRun.failedAttached \cup fetchRun.failedInline
                  => RecordComplete(g)
            /\ g \in fetchRun.failedAttached => ~RecordedAsNoAttached(g)
            /\ g \in fetchRun.failedInline => ~RecordedAsNoInline(g)

----------------------------------------------------------------------------
(* Properties of the programs.                                             *)

UserRuns == Range(runs.user)
GroupRuns == Range(runs.groups)
RoleRuns == Range(runs.roles)

\* The value cannot be parsed as a mapping.
NotAMapping(raw) == raw.kind \in {"invalid", "list"}

\* C11 (malformed top-level config is fatal, and only that): a run of the
\* user stack program, or of the groups stack program, aborts exactly when
\* the top-level value of its config key cannot be parsed as a mapping.
C11_OnlyTopLevelIsFatal ==
    /\ \A r \in UserRuns : r.aborted <=> NotAMapping(raw_config.users)
    /\ \A r \in GroupRuns : r.aborted <=> NotAMapping(raw_config.imported_groups)

\* In a list of declarations every policy attachment and every inline policy
\* comes after the declaration of the group it targets.
GroupBeforePolicy(declared) ==
    \A j \in 1..Len(declared) :
        declared[j].kind \in {"GroupPolicyAttachment", "GroupPolicy"} =>
            \E i \in 1..(j - 1) :
                declared[i].kind = "Group" /\ declared[i].group = declared[j].group

\* C13 (ordering, group before policy): in every run of the groups stack
\* program and of the pulumi-aws-iam program, each managed-policy attachment
\* and each inline policy is declared after the group it targets, and none
\* is declared for a group that is not declared.
C13_GroupBeforePolicy ==
    \A r \in GroupRuns \cup RoleRuns : GroupBeforePolicy(r.declared)

\* A groups stack run that declared policies of two groups, and a run of the
\* roles program.
C13_Witness ==
    /\ runs.roles # << >>
    /\ \E r \in GroupRuns :
          /\ ~r.aborted
          /\ \E i, j \in 1..Len(r.declared) :
                /\ r.declared[i].kind = "GroupPolicyAttachment"
                /\ r.declared[j].kind = "GroupPolicy"
                /\ \E k \in 1..Len(r.declared) :
                      r.declared[k].group # r.declared[i].group

\* The distinct values of a sequence, in the order of their first occurrence.
RECURSIVE FirstOccurrences(_)
FirstOccurrences(seq) ==
    IF seq = << >> THEN << >>
    ELSE LET init == FirstOccurrences(SubSeq(seq, 1, Len(seq) - 1))
             last == seq[Len(seq)]
         IN IF last \in Range(init) THEN init ELSE Append(init, last)

UsersDeclared(r) == FirstOccurrences([i \in 1..Len(r.declared) |-> r.declared[i].user])
GroupsDeclared(r) == FirstOccurrences([i \in 1..Len(r.declared) |-> r.declared[i].group])

----------------------------------------------------------------------------
(* Ordering and failure isolation on the user side.                        *)

\* Position of the first occurrence of x in seq, 0 when absent.
FirstIndex(seq, x) ==
    IF x \in Range(seq)
    THEN CHOOSE i \in 1..Len(seq) : seq[i] = x /\ \A j \in 1..(i - 1) : seq[j] # x
    ELSE 0

\* In a sequence of declared resources every membership comes after the
\* user it belongs to.
UserBeforeMembership(resources) ==
    \A j \in 1..Len(resources) :
        resources[j].kind = "UserGroupMembership"
            => \E i \in 1..(j - 1) :
                  resources[i].kind = "User" /\ resources[i].user = resources[j].user

\* In a sequence of import commands every membership import comes after the
\* import of its user, and that import did not fail.
UserImportBeforeMembership(run) ==
    \A j \in 1..Len(run.order) :
        run.order[j].kind = "UserGroupMembership"
            => /\ \E i \in 1..(j - 1) : run.order[i] = ImportCmd("User", run.order[j].user)
               /\ ImportCmd("User", run.order[j].user) \notin run.failed

\* C14: identity before membership. The program declares every membership
\* after its user, the engine tracks a membership only of a user it tracks,
\* and import_user issues a membership import only after the import of its
\* user, and never when that import failed.
C14_IdentityBeforeMembership ==
    /\ UserBeforeMembership(program.resources)
    /\ \A u \in Users : Tracked(pulumiState, "UserGroupMembership", u)
                            => Tracked(pulumiState, "User", u)
    /\ UserImportBeforeMembership(importRun)

\* C14 witness: an import run in which the import of one user with remote
\* groups failed and no membership import followed, while another user was
\* imported together with its membership.
C14_Witness ==
    /\ ImportWentAhead(importRun)
    /\ \E u \in Users :
          /\ ImportCmd("User", u) \in importRun.failed
          /\ awsGroups[u] # {}
          /\ ImportCmd("UserGroupMembership", u) \notin importRun.issued
    /\ \E u \in Users :
          /\ ImportCmd("User", u) \in importRun.issued \ importRun.failed
          /\ FirstIndex(importRun.order, ImportCmd("UserGroupMembership", u))
                > FirstIndex(importRun.order, ImportCmd("User", u))

\* C17: per-operation failure isolation. In an import run that went ahead
\* the import of every user of users_to_import is attempted, whatever the
\* outcome of the imports before it, and every user import that failed has
\* its failure message.
C17_FailureIsolation ==
    ImportWentAhead(importRun) =>
        \A u \in Range(importRun.users_to_import) :
            /\ ImportCmd("User", u) \in Range(importRun.order)
            /\ ImportCmd("User", u) \in importRun.failed
                  => Message("fail", ImportCmd("User", u), "Failed to import user")
                        \in importRun.messages

\* C17 witness: the import of the first user failed and was reported, and
\* the import of a later user was still attempted.
C17_Witness ==
    /\ ImportWentAhead(importRun)
    /\ Len(importRun.users_to_import) >= 2
    /\ ImportCmd("User", importRun.users_to_import[1]) \in importRun.failed
    /\ Message("fail", ImportCmd("User", importRun.users_to_import[1]),
               "Failed to import user") \in importRun.messages
    /\ FirstIndex(importRun.order, ImportCmd("User", importRun.users_to_import[2]))
          > FirstIndex(importRun.order, ImportCmd("User", importRun.users_to_import[1]))

----------------------------------------------------------------------------
(* Reason messages.                                                        *)

\* The customer managed policy entries of the imported_groups mapping that
\* a run passes over: the ones for which it declares no attachment.
SkippedCustomerPolicies(raw, r) ==
    LET entriesOf(i) ==
            IF IsMapping(raw.entries[i].obj)
            THEN Field(raw.entries[i].obj, "customer_managed_policies", << >>)
            ELSE << >>
        all == UNION {{<< "group", raw.entries[i].name, "customer-policy", idx - 1 >> :
                          idx \in 1..Len(entriesOf(i))} : i \in 1..Len(raw.entries)}
    IN {about \in all : \A d \in Range(r.declared) : d.name # about}

\* C18: no silent skips. Every customer managed policy entry that a
\* completed run of the groups program passes over has a message about it
\* in the run's log.
C18_NoSilentSkips ==
    \A r \in GroupRuns :
        ~r.aborted =>
            \A about \in SkippedCustomerPolicies(raw_config.imported_groups, r) :
                \E m \in r.log : m.about = about

----------------------------------------------------------------------------
(* Existence probes.                                                       *)

\* What C16 says of one step: an import_user run ends early only on a lookup
\* failure, and one that completes records "no" for every remote user
\* without a login profile; a sync_users or fix_user_access_keys run reports
\* no not-found answer as an error, sync_users adds every remote user it
\* did not know, with "no" when there is no login profile, and
\* fix_user_access_keys lists every known user with two keys or more.
NotFoundIsNegative ==
    /\ importRun'.ran =>
          /\ importRun'.aborted => importRun'.lookupFailed # {}
          /\ ~importRun'.aborted =>
                \A u \in awsUsers :
                    /\ HasKey(users_config', u)
                    /\ ~awsLogin[u] => Value(users_config', u).has_console_access = "no"
    /\ out'.op \in {"sync", "fix"} =>
          \A e \in out'.errors : e.code # "NoSuchEntity"
    /\ (out'.op = "sync" /\ out'.errors = {}) =>
          \A u \in awsUsers :
              /\ HasKey(users_config', u)
              /\ (~HasKey(users_config, u) /\ ~awsLogin[u])
                    => Value(users_config', u).has_console_access = "no"
    /\ out'.op = "fix" =>
          \A u \in Range(Keys(users_config)) :
              (u \in awsUsers /\ awsKeys[u] >= 2
                  /\ \A e \in out'.errors : e.user # u) => u \in out'.issues

\* C16: not-found is a valid negative. In every step a not-found answer of
\* an existence probe yields no / false and the run goes on; it neither
\* ends the run nor is reported as an error.
C16_NotFoundIsNegative ==
    [][NotFoundIsNegative]_vars

\* C16 witness: an import_user run met a remote user without a login
\* profile, recorded "no" for it and went on to record the user after it.
C16_Witness ==
    /\ ImportFinished(importRun)
    /\ Len(UserList(awsUsers)) >= 2
    /\ ~awsLogin[UserList(awsUsers)[1]]
    /\ Value(users_config, UserList(awsUsers)[1]).has_console_access = "no"
    /\ HasKey(users_config, UserList(awsUsers)[2])

----------------------------------------------------------------------------
(* Secrets.                                                                *)

\* The credential an output is the secret of.
CredentialOf(e) == IF e.key = "secretAccessKey" THEN "AccessKey" ELSE "UserLoginProfile"

\* C15: secrets are visible exactly once. A step shows a secret only if it
\* is the step that creates the credential the secret belongs to.
C15_SecretsShownOnlyAtCreation ==
    [][\A e \in out'.shown :
          /\ ~Tracked(pulumiState, CredentialOf(e), e.user)
          /\ Tracked(pulumiState', CredentialOf(e), e.user)]_vars

----------------------------------------------------------------------------
(* Names, paths and group requests.                                        *)

\* C12: name and path validation before create. Every entry of the users
\* mapping has a name that passes the username rule and a path that starts
\* and ends with "/".
C12_ValidatedBeforeCreate ==
    \A i \in 1..Len(users_config) :
        /\ ValidateUsername(users_config[i].name)
        /\ users_config[i].obj.isdict
              => StartsAndEndsWithSlash(users_config[i].obj.path)

NoDuplicates(list) ==
    \A i, j \in 1..Len(list) : list[i] = list[j] => i = j

\* An edit_user step that asks for a group the user already has.
EditAddsAssigned(number) ==
    /\ EditAdd(number)
    /\ IndexOf(AllGroups, number - 1) \in Range(edit.groups)

\* C19: membership requests are idempotent. Adding an assigned group in
\* edit_user leaves the group list as it was; a create_user run that was not
\* refused writes each group it was asked for once, however often it was
\* named; and the list under edit never holds a group twice.
C19_IdempotentMembership ==
    [][/\ \A number \in 0..(Cardinality(Groups) + 1) :
             EditAddsAssigned(number) => edit'.groups = edit.groups
       /\ NoDuplicates(edit'.groups)
       /\ (out'.op = "create" /\ out'.errors = {}) =>
             /\ HasKey(users_config', out'.user)
             /\ NoDuplicates(Value(users_config', out'.user).groups)
             /\ Range(Value(users_config', out'.user).groups) = Range(out'.selected)]_vars

\* C19 witness: create_user was asked for the same group twice and wrote
\* the entry with that group once.
C19_Witness ==
    /\ out.op = "create"
    /\ out.errors = {}
    /\ ~NoDuplicates(out.selected)
    /\ HasKey(users_config, out.user)
    /\ Len(Value(users_config, out.user).groups) = 1

----------------------------------------------------------------------------
(* The exported policy count.                                              *)

\* The policy resources a run declared for a group: its attachments and
\* its inline policies.
PoliciesDeclared(r, group_name) ==
    {d \in Range(r.declared) : d.kind # "Group" /\ d.group = group_name}

\* C29: exported policy count matches what was declared. For every group
\* of a completed run of the groups program, the exported
\* group_<name>_policy_count is the number of policy resources the run
\* declared for that group.
C29_PolicyCountMatchesDeclared ==
    \A r \in GroupRuns :
        ~r.aborted =>
            \A g \in Groups : r.policy_count[g] = Cardinality(PoliciesDeclared(r, g))

----------------------------------------------------------------------------
(* Password protection of the credential view.                             *)

\* C21: credential viewing is password protected. A show_user_credentials
\* run shows a credential only if the check granted access, the check
\* grants access only if one of the first MAX_PASSWORD_ATTEMPTS entered
\* passwords is the configured one, and after that many wrong entries
\* access is denied and nothing is shown.
C21_PasswordProtected ==
    out.op = "show" =>
        /\ out.shown # {} => out.granted
        /\ out.granted =>
              \E i \in 1..MAX_PASSWORD_ATTEMPTS :
                  i <= Len(out.entered) /\ out.entered[i] = CREDENTIAL_VIEW_PASSWORD
        /\ (/\ Len(out.entered) >= MAX_PASSWORD_ATTEMPTS
            /\ \A i \in 1..MAX_PASSWORD_ATTEMPTS : out.entered[i] # CREDENTIAL_VIEW_PASSWORD)
              => ~out.granted /\ out.shown = {}

\* The password typed at the fourth prompt that never comes, with a secret
\* in the stack that stays hidden; and a secret shown after the password
\* was typed at the third prompt.
C21_Witness ==
    /\ out.op = "show"
    /\ \/ /\ Len(out.entered) > MAX_PASSWORD_ATTEMPTS
          /\ out.entered[MAX_PASSWORD_ATTEMPTS + 1] = CREDENTIAL_VIEW_PASSWORD
          /\ ~out.granted
          /\ \E e \in StackSecrets(pulumiState) : e.user = out.user
       \/ /\ Len(out.entered) = MAX_PASSWORD_ATTEMPTS
          /\ out.granted
          /\ out.shown # {}

----------------------------------------------------------------------------
(* Index selections of edit_user.                                          *)

\* The numbers the operator may enter at a selection prompt.
SelectionNumbers == 0..(MaxConfigLen + Cardinality(Groups) + 1)

\* C22: index selections in edit_user are range-checked. A number that
\* selects a user, adds a group or removes a group is one of 1..N, N the
\* length of the list shown: 0 selects, adds and removes nothing.
C22_SelectionsRangeChecked ==
    [][\A number \in SelectionNumbers :
          /\ (\E sync_choice \in Flags : EditSelect(number, sync_choice))
                => number \in 1..Len(Keys(users_config))
          /\ EditAdd(number) => number \in 1..Len(AllGroups)
          /\ EditRemove(number) => number \in 1..Len(edit.groups)]_vars

----------------------------------------------------------------------------
(* Deleting access keys.                                                   *)

\* One key of user u fewer, and nothing else about the keys changed.
OneKeyDeleted(u) == awsKeys' = [awsKeys EXCEPT ![u] = @ - 1]

\* C23: access keys are deleted only on explicit confirmation. A run of
\* fix_user_access_keys or check_access_key_limit that changes the keys
\* deletes one key of one user who had two or more, the key selected by a
\* number of the list shown, and in fix_user_access_keys only after the
\* confirmation was answered yes.
C23_KeyDeletedOnlyOnConfirmation ==
    [][(awsKeys' # awsKeys /\ out'.op \in {"fix", "keycheck"}) =>
        /\ \A failing \in SUBSET Users, user_idx \in KeyNumbers, key_idx \in KeyNumbers :
            \A confirm \in YesNoAnswers :
               FixUserAccessKeys(failing, user_idx, key_idx, confirm)
                 => LET users_with_issues == UsersWithIssues(users_config, failing)
                    IN /\ user_idx \in 1..Len(users_with_issues)
                       /\ awsKeys[users_with_issues[user_idx]] >= KeyLimit
                       /\ key_idx \in 1..awsKeys[users_with_issues[user_idx]]
                       /\ confirm = "yes"
                       /\ OneKeyDeleted(users_with_issues[user_idx])
        /\ \A username \in Users, delete_key \in Flags, selection \in KeyNumbers :
               CheckAccessKeyLimit(username, delete_key, selection)
                 => /\ awsKeys[username] >= KeyLimit
                    /\ selection \in 1..awsKeys[username]
                    /\ delete_key = "yes"
                    /\ OneKeyDeleted(username)]_vars

\* A key was deleted by fix_user_access_keys, or by check_access_key_limit:
\* the user of the run was listed with two keys or more and has one fewer.
KeyDeletedBy(op) ==
    /\ out.op = op
    /\ out.user \in out.issues
    /\ awsKeys[out.user] = KeyLimit - 1

C23_Witness == KeyDeletedBy("fix") \/ KeyDeletedBy("keycheck")

----------------------------------------------------------------------------
(* The program file and the working directory.                             *)

\* import_user and the menu entries of manage_users that change the working
\* directory: alice and bob, each in IAM or not, alice in no group or in A,
\* a users mapping written by hand that holds alice or nobody, and the
\* program file as shipped with manage_users started in the project
\* directory, or edited with manage_users started in user_stack (lines
\* 50-54 of manage_users.py stay there).
HostSideInit ==
    /\ awsUsers \in SUBSET Users
    /\ awsKeys = [u \in Users |-> 0]
    /\ awsLogin = [u \in Users |-> FALSE]
    /\ awsGroups \in [Users -> {{}, {"A"}}]
    /\ awsPath = [u \in Users |-> "/"]
    /\ \A u \in Users \ awsUsers : awsGroups[u] = {}
    /\ awsGroups["bob"] = {}
    /\ users_config \in {c \in InitConfigs : ~HasKey(c, "bob")}
    /\ pulumiState = {}
    /\ program = NoProgram
    /\ pc = "idle"
    /\ lastApplied = FALSE
    /\ operatorRemoved = {}
    /\ importRun = NoImportRun
    /\ edit = NoEdit
    /\ out = NoOut
    /\ ops = 0
    /\ host \in {[main_py |-> UserStackText, backup |-> NoFile, cwd |-> "project"],
                 [main_py |-> EditedText, backup |-> NoFile, cwd |-> UserStackPath]}
    /\ GroupsQuiet
    /\ ProgramsQuiet

HostNext ==
    \/ \E failing \in SUBSET awsUsers : ImportUserAborts(failing)
    \/ \E exportOk \in BOOLEAN, proceed \in Flags :
          \E okUsers \in SUBSET (IF proceed = "yes" THEN awsUsers ELSE {}) :
            \E okMemberships \in SUBSET okUsers :
              ImportUser(exportOk, proceed, okUsers, okMemberships)
    \/ \E username \in Users, entered \in PasswordInputs :
          ShowUserCredentials(username, entered)
    \/ \E script_name \in {"sync_users.py", "no_such_script.py"}, fault \in Faults :
          RunScript(script_name, fault)
    \/ \E response \in YesNoAnswers, fault \in Faults : RefreshPulumiState(response, fault)
    \/ \E response \in YesNoAnswers, fault \in Faults : DeployPendingChanges(response, fault)
    \/ \E proceed \in Flags, save_confirm \in Flags, deploy \in Flags :
          \E fault \in Faults \cup {"no Pulumi.yaml"} :
            ManageImportGroups(proceed, save_confirm, deploy, fault)

SpecHost == HostSideInit /\ [][HostNext]_vars

\* An import_user run that got as far as the prompt of line 98.
ImportAsked ==
    /\ importRun'.ran
    /\ ops' # ops
    /\ ~importRun'.aborted
    /\ importRun'.users_to_import # << >>

\* C24: the program file is restored after import. A run of import_user
\* that replaces __main__.py leaves it with the content it had before the
\* run, and leaves no backup file, whichever imports failed.
C24_ProgramRestored ==
    [][ImportAsked /\ importRun'.proceed = "yes"
         => host'.main_py = host.main_py /\ host'.backup = NoFile]_vars

\* An import of an edited program in which one import failed and another
\* succeeded.
C24_Witness ==
    /\ importRun.ran
    /\ importRun.proceed = "yes"
    /\ importRun.failed # {}
    /\ importRun.issued \ importRun.failed # {}
    /\ host.main_py = EditedText
    /\ host.backup = NoFile

\* C25: declining the import leaves everything unchanged. A run of
\* import_user in which the operator does not answer yes leaves the users
\* config, the engine's state and __main__.py as they were.
C25_DecliningChangesNothing ==
    [][ImportAsked /\ importRun'.proceed # "yes"
         => /\ users_config' = users_config
            /\ pulumiState' = pulumiState
            /\ host' = host]_vars

----------------------------------------------------------------------------
(* sync_users adds and never changes.                                      *)

\* The remote users the config has no entry for.
NotYetInConfig == {u \in awsUsers : ~HasKey(users_config, u)}

\* C26: sync is add-only. A sync_users run leaves every entry of the
\* config where and as it was; a run that completes adds one entry for
\* each remote user the config did not have, and no other; and the config
\* is written only when a user was added.
C26_SyncIsAddOnly ==
    [][out'.op = "sync" /\ ops' # ops =>
          /\ Len(users_config') >= Len(users_config)
          /\ SubSeq(users_config', 1, Len(users_config)) = users_config
          /\ out'.errors = {} =>
                /\ Range(Keys(users_config')) = Range(Keys(users_config)) \cup NotYetInConfig
                /\ Len(users_config') = Len(users_config) + Cardinality(NotYetInConfig)
          /\ out'.written => NotYetInConfig # {}
          /\ ~out'.written => users_config' = users_config]_vars

\* A sync that added a user and kept an entry that differs from what IAM
\* holds for its user.
C26_Witness ==
    /\ out.op = "sync"
    /\ out.written
    /\ \E u \in awsUsers :
          /\ HasKey(users_config, u)
          /\ Value(users_config, u) # RemoteEntry(u)

----------------------------------------------------------------------------
(* Creating a user that exists.                                            *)

\* A step of create_user or create_users.
CreateStep == out'.op \in {"create", "create_users"} /\ ops' # ops

\* The config is as it was and nothing is deployed.
CreateRefused == users_config' = users_config /\ ~out'.written /\ pc' # "up"

\* One entry, under the name entered, is added after the others, which
\* are as they were.
OneEntryAdded ==
    /\ Len(users_config') = Len(users_config) + 1
    /\ SubSeq(users_config', 1, Len(users_config)) = users_config
    /\ users_config'[Len(users_config')].name = out'.user

\* C27 as stated: a name that is in the config is refused without effect,
\* and any other name adds exactly one entry.
C27_AsStated ==
    [][CreateStep =>
          IF HasKey(users_config, out'.user) THEN CreateRefused ELSE OneEntryAdded]_vars

\* C27: duplicate create is rejected without effect. A name that is in the
\* config is refused without effect; any other name adds exactly one
\* entry and leaves the others as they were, except that create_user
\* refuses the empty name as well.
C27_DuplicateRejected ==
    [][CreateStep =>
          IF HasKey(users_config, out'.user) THEN CreateRefused
          ELSE IF out'.op = "create" /\ out'.user = "" THEN CreateRefused
          ELSE OneEntryAdded]_vars

\* A name that is in the config was entered with blanks around it, with a
\* request to deploy, and refused.
C27_Witness ==
    /\ out.op \in {"create", "create_users"}
    /\ out.errors = {ErrorOf(out.user, "AlreadyExists")}
    /\ HasKey(users_config, out.user)
    /\ pc = "idle"

----------------------------------------------------------------------------
(* Deleting a user.                                                        *)

\* C28: delete removes exactly the named user. A delete_user run leaves no
\* entry under the name entered, keeps every other entry as it was, and
\* writes back the mapping it read when the name is not in it.
C28_DeleteRemovesExactlyNamed ==
    [][out'.op = "delete" /\ ops' # ops =>
          /\ ~HasKey(users_config', out'.user)
          /\ \A i \in 1..Len(users_config) :
                users_config[i].name # out'.user
                    => \E j \in 1..Len(users_config') : users_config'[j] = users_config[i]
          /\ Len(users_config') =
                Len(users_config) - (IF HasKey(users_config, out'.user) THEN 1 ELSE 0)
          /\ ~HasKey(users_config, out'.user) => users_config' = users_config]_vars

\* A delete that found the name and left an entry behind.
C28_Witness ==
    /\ out.op = "delete"
    /\ out.errors = {}
    /\ users_config # << >>

----------------------------------------------------------------------------
(* The working directory.                                                  *)

\* C30: the working directory is restored. Every run of run_script,
\* refresh_pulumi_state, deploy_pending_changes, show_user_credentials and
\* import_groups ends in the directory it started in, whether or not its
\* sub-commands failed, it returned early or it caught an exception.
C30_WorkingDirectoryRestored ==
    [][out'.menu # "" /\ ops' # ops => host'.cwd = host.cwd]_vars

\* deploy_pending_changes went from the project directory to the user
\* stack directory, its preview failed, and it is back.
C30_Witness ==
    /\ out.menu = "deploy_pending_changes"
    /\ out.errors # {}
    /\ out.ran_in = UserStackPath
    /\ host.cwd = "project"

====
